---- MODULE Spec2Model ----
(***************************************************************************)
(* Key-creation parameter codec of the ProxLock dashboard                  *)
(* (src/utils/keyParams.ts): parseKeyParams and buildKeyParamsUrl, with    *)
(* the URLSearchParams serialisation and parsing they go through.          *)
(*                                                                         *)
(* A JavaScript string is a sequence of one-character strings.  null and   *)
(* undefined are the one-element sequences Null and Undefined, which are   *)
(* not strings.  A Partial<KeyParams> is a record that has only the        *)
(* fields that are set.  A number is a record [k |-> kind, ...].           *)
(***************************************************************************)
EXTENDS Integers, Sequences, FiniteSets, TLC

(***************************************************************************)
(* Bounds of the model                                                     *)
(***************************************************************************)
\* longest whitelistedUrls array of an intent
MaxUrls == 2
\* number of fragments a raw whitelistedUrls query value is assembled from
MaxTokens == 3
\* largest rateLimit of an intent (the smallest is -2)
MaxRate == 12
\* calls of parseKeyParams by the page entered with a query, one per render
MaxDecodes == 2
\* projects the backend lists for a user
MaxProjects == 2
\* keys the backend lists for a project
MaxKeys == 2
\* largest projectLimit and apiKeyLimit of a user (the smallest is -1)
MaxLimit == 2
\* largest requestLimit of a user (the smallest is -1)
MaxRequests == 10
\* calls of fetchProjects a page makes
MaxCalls == 3

(***************************************************************************)
(* Characters and strings                                                  *)
(***************************************************************************)
\* U+0060, which a TLA+ string cannot hold
GraveAccent == "<60>"

\* printable ASCII, U+0020 .. U+007E, in code order
Ascii ==
  << " ", "!", "\"", "#", "$", "%", "&", "'", "(", ")", "*", "+", ",", "-", ".", "/",
     "0", "1", "2", "3", "4", "5", "6", "7", "8", "9", ":", ";", "<", "=", ">", "?",
     "@", "A", "B", "C", "D", "E", "F", "G", "H", "I", "J", "K", "L", "M", "N", "O",
     "P", "Q", "R", "S", "T", "U", "V", "W", "X", "Y", "Z", "[", "\\", "]", "^", "_",
     GraveAccent, "a", "b", "c", "d", "e", "f", "g", "h", "i", "j", "k", "l", "m", "n", "o",
     "p", "q", "r", "s", "t", "u", "v", "w", "x", "y", "z", "{", "|", "}", "~" >>

\* an unpaired surrogate code unit, and U+FFFD REPLACEMENT CHARACTER
LoneSurrogate == "<D800>"
ReplacementChar == "<FFFD>"

Range(s) == { s[i] : i \in DOMAIN s }

AsciiChar == Range(Ascii)

Char == AsciiChar \cup {"\t", "\n", LoneSurrogate, ReplacementChar}

Null == << "null" >>
Undefined == << "undefined" >>

IsString(x) == \A i \in DOMAIN x : x[i] \in Char

HexDigits == << "0", "1", "2", "3", "4", "5", "6", "7", "8", "9",
                "A", "B", "C", "D", "E", "F" >>

DecDigit == { HexDigits[i] : i \in 1..10 }

DigitVal(c) == (CHOOSE i \in 1..10 : HexDigits[i] = c) - 1

\* code point of a character of the ASCII range of the model
CodeOf(c) ==
  IF c = "\t" THEN 9
  ELSE IF c = "\n" THEN 10
  ELSE 31 + (CHOOSE i \in DOMAIN Ascii : Ascii[i] = c)

IsUpper(c) == c \in AsciiChar /\ CodeOf(c) \in 65..90

\* the /i flag of a regular expression: compare letters without case
ToLower(c) == IF IsUpper(c) THEN Ascii[CodeOf(c) + 32 - 31] ELSE c

Drop(s, n) == SubSeq(s, n + 1, Len(s))

Take(s, n) == SubSeq(s, 1, n)

\* ECMAScript WhiteSpace and LineTerminator, as far as the alphabet has them
WhiteSpace == {" ", "\t", "\n"}

RECURSIVE TrimStart(_)
TrimStart(s) ==
  IF s # << >> /\ s[1] \in WhiteSpace THEN TrimStart(Tail(s)) ELSE s

RECURSIVE TrimEnd(_)
TrimEnd(s) ==
  IF s # << >> /\ s[Len(s)] \in WhiteSpace THEN TrimEnd(Take(s, Len(s) - 1)) ELSE s

\* String.prototype.trim
Trim(s) == TrimEnd(TrimStart(s))

\* index of the first occurrence of character c in s, 0 when there is none
RECURSIVE IndexFrom(_, _, _)
IndexFrom(s, c, i) ==
  IF i > Len(s) THEN 0
  ELSE IF s[i] = c THEN i
  ELSE IndexFrom(s, c, i + 1)

IndexOf(s, c) == IndexFrom(s, c, 1)

\* String.prototype.split on a one-character separator
RECURSIVE Split(_, _)
Split(s, sep) ==
  LET i == IndexOf(s, sep)
  IN  IF i = 0 THEN << s >>
      ELSE << Take(s, i - 1) >> \o Split(Drop(s, i), sep)

\* Array.prototype.join on a one-character separator
RECURSIVE Join(_, _)
Join(arr, sep) ==
  IF arr = << >> THEN << >>
  ELSE IF Len(arr) = 1 THEN arr[1]
  ELSE arr[1] \o << sep >> \o Join(Tail(arr), sep)

\* no filter
FilterNothing(arr) == arr

\* Array.prototype.filter(url => url.length > 0)
RECURSIVE FilterNonEmpty(_)
FilterNonEmpty(arr) ==
  IF arr = << >> THEN << >>
  ELSE IF Len(arr[1]) > 0 THEN << arr[1] >> \o FilterNonEmpty(Tail(arr))
  ELSE FilterNonEmpty(Tail(arr))

(***************************************************************************)
(* Numbers: [k |-> "int", v |-> n] for |n| < 10^9, [k |-> "big", ...] for  *)
(* a larger finite integer (its decimal digits are kept), NaN, +-Infinity  *)
(***************************************************************************)
IntNum(n) == [k |-> "int", v |-> n]

NaN == [k |-> "NaN"]

Infinity(sign) == [k |-> "Infinity", sign |-> sign]

Big(sign, digits) == [k |-> "big", sign |-> sign, digits |-> digits]

\* the global isNaN, on a number
isNaN(x) == x.k = "NaN"

\* x < n and x >= n for a number x and a small integer n
NumLt(x, n) ==
  CASE x.k = "int" -> x.v < n
    [] x.k = "NaN" -> FALSE
    [] OTHER -> x.sign < 0

NumGe(x, n) ==
  CASE x.k = "int" -> x.v >= n
    [] x.k = "NaN" -> FALSE
    [] OTHER -> x.sign > 0

\* a number that is a mathematical integer
IsInteger(x) == x.k \in {"int", "big"}

\* the decimal digits of 2^1024 - 2^970: an integer of this size or more
\* has no finite double and converts to Infinity
DoubleOverflow ==
  << "1", "7", "9", "7", "6", "9", "3", "1", "3", "4", "8", "6", "2", "3", "1", "5", "8", "0", "7", "9", "3", "7", "2", "8",
       "9", "7", "1", "4", "0", "5", "3", "0", "3", "4", "1", "5", "0", "7", "9", "9", "3", "4", "1", "3", "2", "7", "1", "0",
       "0", "3", "7", "8", "2", "6", "9", "3", "6", "1", "7", "3", "7", "7", "8", "9", "8", "0", "4", "4", "4", "9", "6", "8",
       "2", "9", "2", "7", "6", "4", "7", "5", "0", "9", "4", "6", "6", "4", "9", "0", "1", "7", "9", "7", "7", "5", "8", "7",
       "2", "0", "7", "0", "9", "6", "3", "3", "0", "2", "8", "6", "4", "1", "6", "6", "9", "2", "8", "8", "7", "9", "1", "0",
       "9", "4", "6", "5", "5", "5", "5", "4", "7", "8", "5", "1", "9", "4", "0", "4", "0", "2", "6", "3", "0", "6", "5", "7",
       "4", "8", "8", "6", "7", "1", "5", "0", "5", "8", "2", "0", "6", "8", "1", "9", "0", "8", "9", "0", "2", "0", "0", "0",
       "7", "0", "8", "3", "8", "3", "6", "7", "6", "2", "7", "3", "8", "5", "4", "8", "4", "5", "8", "1", "7", "7", "1", "1",
       "5", "3", "1", "7", "6", "4", "4", "7", "5", "7", "3", "0", "2", "7", "0", "0", "6", "9", "8", "5", "5", "5", "7", "1",
       "3", "6", "6", "9", "5", "9", "6", "2", "2", "8", "4", "2", "9", "1", "4", "8", "1", "9", "8", "6", "0", "8", "3", "4",
       "9", "3", "6", "4", "7", "5", "2", "9", "2", "7", "1", "9", "0", "7", "4", "1", "6", "8", "4", "4", "4", "3", "6", "5",
       "5", "1", "0", "7", "0", "4", "3", "4", "2", "7", "1", "1", "5", "5", "9", "6", "9", "9", "5", "0", "8", "0", "9", "3",
       "0", "4", "2", "8", "8", "0", "1", "7", "7", "9", "0", "4", "1", "7", "4", "4", "9", "7", "7", "9", "2" >>

\* the least index of s whose character is not in S, Len(s) + 1 if none
FirstNotIn(s, S) ==
  LET idx == { i \in DOMAIN s : s[i] \notin S }
  IN  IF idx = {} THEN Len(s) + 1 ELSE CHOOSE i \in idx : \A j \in idx : i <= j

\* the longest prefix of decimal digits
DigitPrefix(s) == Take(s, FirstNotIn(s, DecDigit) - 1)

StripZeros(s) == Drop(s, FirstNotIn(s, {"0"}) - 1)

RECURSIVE DigitsValue(_, _)
DigitsValue(s, acc) ==
  IF s = << >> THEN acc ELSE DigitsValue(Tail(s), 10 * acc + DigitVal(s[1]))

\* a >= b for two digit strings of the same length
DigitsGe(a, b) ==
  LET diff == { i \in DOMAIN a : a[i] # b[i] }
  IN  IF diff = {} THEN TRUE
      ELSE LET i == CHOOSE h \in diff : \A j \in diff : h <= j
           IN  DigitVal(a[i]) > DigitVal(b[i])

\* parseInt(s, 10)
parseInt(s) ==
  LET t    == TrimStart(s)
      sign == IF t # << >> /\ t[1] = "-" THEN -1 ELSE 1
      u    == IF t # << >> /\ t[1] \in {"+", "-"} THEN Tail(t) ELSE t
      z    == DigitPrefix(u)
      sig  == StripZeros(z)
  IN  IF z = << >> THEN NaN
      ELSE IF Len(sig) <= 9 THEN IntNum(sign * DigitsValue(sig, 0))
      ELSE IF Len(sig) > Len(DoubleOverflow)
              \/ (Len(sig) = Len(DoubleOverflow) /\ DigitsGe(sig, DoubleOverflow))
           THEN Infinity(sign)
      ELSE Big(sign, sig)

RECURSIVE NatToString(_)
NatToString(n) ==
  IF n < 10 THEN << HexDigits[n + 1] >>
  ELSE NatToString(n \div 10) \o << HexDigits[(n % 10) + 1] >>

\* s without the zeros it ends with
StripTrailingZeros(s) ==
  LET nz == { i \in DOMAIN s : s[i] # "0" }
  IN  IF nz = { } THEN << >> ELSE SubSeq(s, 1, CHOOSE i \in nz : \A j \in nz : j <= i)

\* the exponent form of Number.prototype.toString() for a value of 10^21 or
\* more whose significant digits are d: d[1].d[2..]e+n
ExponentForm(d) ==
  LET m == StripTrailingZeros(d)
  IN  << m[1] >> \o (IF Len(m) > 1 THEN << "." >> \o Tail(m) ELSE << >>)
        \o << "e", "+" >> \o NatToString(Len(d) - 1)

\* Number.prototype.toString(); an integer is written in full below 10^21
\* and in exponent form from there on
NumberToString(x) ==
  CASE x.k = "int" -> IF x.v < 0 THEN << "-" >> \o NatToString(-x.v) ELSE NatToString(x.v)
    [] x.k = "NaN" -> << "N", "a", "N" >>
    [] x.k = "Infinity" ->
         (IF x.sign < 0 THEN << "-" >> ELSE << >>)
           \o << "I", "n", "f", "i", "n", "i", "t", "y" >>
    [] OTHER -> (IF x.sign < 0 THEN << "-" >> ELSE << >>)
                  \o (IF Len(x.digits) >= 22 THEN ExponentForm(x.digits) ELSE x.digits)

(***************************************************************************)
(* URLSearchParams: a list of <<name, value>> pairs, its serialiser        *)
(* (toString) and its parser (the constructor the router applies to the    *)
(* query string of the location)                                           *)
(***************************************************************************)
\* conversion to a USVString: an unpaired surrogate becomes U+FFFD
ToUSVString(s) ==
  [i \in DOMAIN s |-> IF s[i] = LoneSurrogate THEN ReplacementChar ELSE s[i]]

\* URLSearchParams.get: the value of the first pair named k, or null
RECURSIVE Get(_, _)
Get(sp, k) ==
  IF sp = << >> THEN Null
  ELSE IF sp[1][1] = k THEN sp[1][2]
  ELSE Get(Tail(sp), k)

Has(sp, k) == \E i \in DOMAIN sp : sp[i][1] = k

RECURSIVE RemoveNamed(_, _)
RemoveNamed(sp, k) ==
  IF sp = << >> THEN << >>
  ELSE IF sp[1][1] = k THEN RemoveNamed(Tail(sp), k)
  ELSE << sp[1] >> \o RemoveNamed(Tail(sp), k)

\* URLSearchParams.set: replace the first pair named k and drop the others,
\* or append
SetParam(sp, k, v) ==
  LET name  == ToUSVString(k)
      value == ToUSVString(v)
  IN  IF Has(sp, name)
      THEN LET i == CHOOSE j \in DOMAIN sp :
                      sp[j][1] = name /\ \A h \in 1..(j - 1) : sp[h][1] # name
           IN  Take(sp, i - 1) \o << << name, value >> >>
                 \o RemoveNamed(Drop(sp, i), name)
      ELSE Append(sp, << name, value >>)

\* characters the application/x-www-form-urlencoded serialiser leaves alone
IsAlnum(c) ==
  c \in AsciiChar /\ CodeOf(c) \in (48..57) \cup (65..90) \cup (97..122)

FormUnreserved(c) == IsAlnum(c) \/ c \in {"*", "-", ".", "_"}

PercentEncodeByte(n) ==
  << "%", HexDigits[(n \div 16) + 1], HexDigits[(n % 16) + 1] >>

\* a serialiser that only turns the space into "+"
FormEncodeCharRaw(c) == IF c = " " THEN << "+" >> ELSE << c >>

FormEncodeChar(c) ==
  IF c = " " THEN << "+" >>
  ELSE IF FormUnreserved(c) THEN << c >>
  ELSE IF c \in {ReplacementChar, LoneSurrogate}
       THEN PercentEncodeByte(239) \o PercentEncodeByte(191) \o PercentEncodeByte(189)
  ELSE PercentEncodeByte(CodeOf(c))

RECURSIVE FormEncode(_)
FormEncode(s) ==
  IF s = << >> THEN << >> ELSE FormEncodeChar(s[1]) \o FormEncode(Tail(s))

\* URLSearchParams.toString
RECURSIVE SearchParamsToString(_)
SearchParamsToString(sp) ==
  IF sp = << >> THEN << >>
  ELSE FormEncode(sp[1][1]) \o << "=" >> \o FormEncode(sp[1][2])
         \o (IF Len(sp) > 1 THEN << "&" >> \o SearchParamsToString(Tail(sp)) ELSE << >>)

IsHexDigit(c) ==
  \E i \in DOMAIN HexDigits : HexDigits[i] = c \/ ToLower(HexDigits[i]) = c

HexVal(c) ==
  (CHOOSE i \in DOMAIN HexDigits : HexDigits[i] = c \/ ToLower(HexDigits[i]) = c) - 1

\* the character of a decoded byte; a byte the alphabet has no character
\* for (the serialiser emits none) is shown as U+FFFD
ByteToChar(n) ==
  IF n = 9 THEN "\t"
  ELSE IF n = 10 THEN "\n"
  ELSE IF n \in 32..126 THEN Ascii[n - 31]
  ELSE ReplacementChar

IsPercentByte(s, n) ==
  /\ Len(s) >= 3
  /\ s[1] = "%"
  /\ IsHexDigit(s[2])
  /\ IsHexDigit(s[3])
  /\ 16 * HexVal(s[2]) + HexVal(s[3]) = n

\* percent-decode, then UTF-8 decode
RECURSIVE PercentDecode(_)
PercentDecode(s) ==
  IF s = << >> THEN << >>
  ELSE IF /\ IsPercentByte(s, 239)
          /\ IsPercentByte(Drop(s, 3), 191)
          /\ IsPercentByte(Drop(s, 6), 189)
       THEN << ReplacementChar >> \o PercentDecode(Drop(s, 9))
  ELSE IF Len(s) >= 3 /\ s[1] = "%" /\ IsHexDigit(s[2]) /\ IsHexDigit(s[3])
       THEN << ByteToChar(16 * HexVal(s[2]) + HexVal(s[3])) >> \o PercentDecode(Drop(s, 3))
  ELSE << s[1] >> \o PercentDecode(Drop(s, 1))

PlusToSpace(s) == [i \in DOMAIN s |-> IF s[i] = "+" THEN " " ELSE s[i]]

FormDecode(s) == PercentDecode(PlusToSpace(s))

RECURSIVE ParsePairs(_)
ParsePairs(pieces) ==
  IF pieces = << >> THEN << >>
  ELSE LET p == pieces[1]
           i == IndexOf(p, "=")
           name  == IF i = 0 THEN p ELSE Take(p, i - 1)
           value == IF i = 0 THEN << >> ELSE Drop(p, i)
       IN  (IF p = << >> THEN << >>
            ELSE << << FormDecode(name), FormDecode(value) >> >>)
             \o ParsePairs(Tail(pieces))

\* new URLSearchParams(init) for a string init
NewURLSearchParams(init) ==
  LET q == IF init # << >> /\ init[1] = "?" THEN Tail(init) ELSE init
  IN  ParsePairs(Split(q, "&"))

(***************************************************************************)
(* src/utils/keyParams.ts                                                  *)
(***************************************************************************)
NameKey == << "n", "a", "m", "e" >>
KeyKey == << "k", "e", "y" >>
DescriptionKey == << "d", "e", "s", "c", "r", "i", "p", "t", "i", "o", "n" >>
AllowsWebKey == << "a", "l", "l", "o", "w", "s", "W", "e", "b" >>
WhitelistedUrlsKey ==
  << "w", "h", "i", "t", "e", "l", "i", "s", "t", "e", "d", "U", "r", "l", "s" >>
RateLimitKey == << "r", "a", "t", "e", "L", "i", "m", "i", "t" >>
OpenModalKey == << "o", "p", "e", "n", "M", "o", "d", "a", "l" >>
TrueStr == << "t", "r", "u", "e" >>

\* truthiness of a string, null or undefined
Truthy(x) == x # Null /\ x # Undefined /\ x # << >>

\* the value trimmed
OrEmptyTrimmed(x) == IF Truthy(x) THEN Trim(x) ELSE << >>

\* the value as read, without the || "" default
OrEmptyMissing(x) == x

\* x || ""
OrEmpty(x) == IF Truthy(x) THEN x ELSE << >>

\* s starts with pat, letters compared without case
StartsWithCI(s, pat) ==
  /\ Len(s) >= Len(pat)
  /\ \A i \in DOMAIN pat : ToLower(s[i]) = pat[i]

\* the replace without the i flag
StripProtocolCaseSensitive(s) ==
  IF Len(s) >= 8 /\ Take(s, 8) = << "h", "t", "t", "p", "s", ":", "/", "/" >> THEN Drop(s, 8)
  ELSE IF Len(s) >= 7 /\ Take(s, 7) = << "h", "t", "t", "p", ":", "/", "/" >> THEN Drop(s, 7)
  ELSE s

\* cleanUrl.replace(/^https?:\/\//i, "")
StripProtocol(s) ==
  IF StartsWithCI(s, << "h", "t", "t", "p", "s", ":", "/", "/" >>) THEN Drop(s, 8)
  ELSE IF StartsWithCI(s, << "h", "t", "t", "p", ":", "/", "/" >>) THEN Drop(s, 7)
  ELSE s

\* cleanUrl.replace(/^\/+/, "")
RECURSIVE StripLeadingSlashes(_)
StripLeadingSlashes(s) ==
  IF s # << >> /\ s[1] = "/" THEN StripLeadingSlashes(Tail(s)) ELSE s

\* the callback of the map in parseKeyParams
CleanUrl(url) == StripLeadingSlashes(StripProtocol(Trim(url)))

\* the whitelistedUrls of parseKeyParams, from the raw parameter
ParseWhitelistedUrls(whitelistedUrlsParam) ==
  IF Truthy(whitelistedUrlsParam)
  THEN LET pieces == Split(whitelistedUrlsParam, ",")
       IN  FilterNonEmpty([i \in DOMAIN pieces |-> CleanUrl(pieces[i])])
  ELSE << >>

\* the rateLimit of parseKeyParams, from the raw parameter
ParseRateLimit(rateLimitParam) ==
  LET rateLimit == IF Truthy(rateLimitParam) THEN parseInt(rateLimitParam) ELSE IntNum(-1)
  IN  IF isNaN(rateLimit) \/ NumLt(rateLimit, 1) THEN IntNum(-1) ELSE rateLimit

\* everything but the string false is true
ParseAllowsWebNotFalse(allowsWebParam) == allowsWebParam # << "f", "a", "l", "s", "e" >>

\* true in any case of the letters
ParseAllowsWebAnyCase(allowsWebParam) ==
  [i \in DOMAIN allowsWebParam |-> ToLower(allowsWebParam[i])] = TrueStr

\* searchParams.get("allowsWeb") === "true"
ParseAllowsWeb(allowsWebParam) == allowsWebParam = TrueStr

parseKeyParams(searchParams) ==
  [ name            |-> OrEmpty(Get(searchParams, NameKey)),
    key             |-> OrEmpty(Get(searchParams, KeyKey)),
    description     |-> OrEmpty(Get(searchParams, DescriptionKey)),
    allowsWeb       |-> ParseAllowsWeb(Get(searchParams, AllowsWebKey)),
    whitelistedUrls |-> ParseWhitelistedUrls(OrEmpty(Get(searchParams, WhitelistedUrlsKey))),
    rateLimit       |-> ParseRateLimit(Get(searchParams, RateLimitKey)) ]

\* a field of a Partial<KeyParams> that is set
IsSet(params, f) == f \in DOMAIN params

\* write a string field whenever it is set, also when it is empty
StringEntryWhenSet(sp, params, f, k) ==
  IF IsSet(params, f) THEN SetParam(sp, k, params[f]) ELSE sp

\* if (params.name) searchParams.set("name", params.name), and the same
\* for key and description
StringEntry(sp, params, f, k) ==
  IF IsSet(params, f) /\ Truthy(params[f]) THEN SetParam(sp, k, params[f]) ELSE sp

\* write allowsWeb whenever it is set, as true or false
AllowsWebEntryAlways(sp, params) ==
  IF IsSet(params, "allowsWeb")
  THEN SetParam(sp, AllowsWebKey,
                IF params.allowsWeb THEN TrueStr ELSE << "f", "a", "l", "s", "e" >>)
  ELSE sp

\* if (params.allowsWeb) searchParams.set("allowsWeb", "true")
AllowsWebEntry(sp, params) ==
  IF IsSet(params, "allowsWeb") /\ params.allowsWeb
  THEN SetParam(sp, AllowsWebKey, TrueStr) ELSE sp

\* clean the elements before joining them
WhitelistedUrlsEntryCleaned(sp, params) ==
  LET urls == IF IsSet(params, "whitelistedUrls")
              THEN FilterNonEmpty([i \in DOMAIN params.whitelistedUrls |->
                                     CleanUrl(params.whitelistedUrls[i])])
              ELSE << >>
  IN  IF Len(urls) > 0 THEN SetParam(sp, WhitelistedUrlsKey, Join(urls, ",")) ELSE sp

WhitelistedUrlsEntry(sp, params) ==
  IF IsSet(params, "whitelistedUrls") /\ Len(params.whitelistedUrls) > 0
  THEN SetParam(sp, WhitelistedUrlsKey, Join(params.whitelistedUrls, ","))
  ELSE sp

\* an encoder that knows no rateLimit
RateLimitEntryOmitted(sp, params) == sp

\* include rateLimit unless it is -1
RateLimitEntryNotSentinel(sp, params) ==
  IF IsSet(params, "rateLimit") /\ params.rateLimit # IntNum(-1)
  THEN SetParam(sp, RateLimitKey, NumberToString(params.rateLimit)) ELSE sp

\* only include rateLimit if it is >= 1 (not -1/unlimited and not 0)
RateLimitEntry(sp, params) ==
  IF IsSet(params, "rateLimit") /\ NumGe(params.rateLimit, 1)
  THEN SetParam(sp, RateLimitKey, NumberToString(params.rateLimit)) ELSE sp

\* write the marker whatever the flag
OpenModalEntryUnconditional(sp, args) == SetParam(sp, OpenModalKey, TrueStr)

\* args is the list of the arguments given after params; includeOpenModal
\* defaults to true
OpenModalEntry(sp, args) ==
  LET includeOpenModal == IF args = << >> THEN TRUE ELSE args[1]
  IN  IF includeOpenModal THEN SetParam(sp, OpenModalKey, TrueStr) ELSE sp

buildKeyParamsUrl(params, args) ==
  LET s1 == StringEntry(<< >>, params, "name", NameKey)
      s2 == StringEntry(s1, params, "key", KeyKey)
      s3 == StringEntry(s2, params, "description", DescriptionKey)
      s4 == AllowsWebEntry(s3, params)
      s5 == WhitelistedUrlsEntry(s4, params)
      s6 == RateLimitEntry(s5, params)
      s7 == OpenModalEntry(s6, args)
  IN  SearchParamsToString(s7)

\* the version of buildKeyParamsUrl that knows no description and no
\* rateLimit
buildKeyParamsUrlLegacy(params, args) ==
  LET s1 == StringEntry(<< >>, params, "name", NameKey)
      s2 == StringEntry(s1, params, "key", KeyKey)
      s3 == AllowsWebEntry(s2, params)
      s4 == WhitelistedUrlsEntry(s3, params)
      s5 == OpenModalEntry(s4, args)
  IN  SearchParamsToString(s5)

(***************************************************************************)
(* Inputs                                                                  *)
(***************************************************************************)
\* strings given as name, key or description of an intent
NameSamples ==
  { <<  >>,
    << "a" >>,
    << "O", "p", "e", "n", "A", "I" >>,
    << " ", "a", " ", "b", " " >>,
    << "x", "&", "a", "l", "l", "o", "w", "s", "W", "e", "b", "=", "f", "a", "l", "s", "e" >>,
    << "a", "=", "b", "&", "o", "p", "e", "n", "M", "o", "d", "a", "l", "=", "t", "r", "u", "e" >>,
    << "5", "0", "%", "+", "1" >> }

\* a string that is not well-formed UTF-16
SurrogateSample == << "n", LoneSurrogate >>

\* elements of the whitelistedUrls array of an intent
UrlSamples ==
  { <<  >>,
    << "a", ".", "b" >>,
    << " ", "a", ".", "b" >>,
    << "a", ",", "b" >>,
    << "h", "t", "t", "p", "s", ":", "/", "/", "a", ".", "b" >>,
    << "/", "a", ".", "b" >>,
    << "H", "T", "T", "P", ":", "/", "/", "a", ".", "b" >>,
    << "a", ".", "b", "/", "c", " ", "d" >>,
    << "a", LoneSurrogate >> }

\* fragments a raw whitelistedUrls query value is assembled from
UrlTokens ==
  << << "h", "t", "t", "p", "s", ":", "/", "/" >>,
     << "H", "t", "T", "p", ":", "/", "/" >>,
     << "/" >>,
     << " " >>,
     << "," >>,
     << "a", ".", "b" >>,
     << "x" >> >>

\* raw rateLimit query values
RateSamples ==
  { <<  >>,
    << "0" >>,
    << "-", "5" >>,
    << "a", "b", "c" >>,
    << "4", "2" >>,
    << " ", "4", "2" >>,
    << "4", "x" >>,
    << "+", "7" >>,
    << "-", "0" >>,
    << "0", "0", "7" >>,
    << "1", ".", "5" >>,
    << "1", "e", "3" >>,
    << "0", "x", "1", "F" >>,
    << "1", "2", "3", "4", "5", "6", "7", "8", "9", "0" >>,
    << "I", "n", "f", "i", "n", "i", "t", "y" >> }

\* raw allowsWeb query values
AllowsWebSamples ==
  { << "t", "r", "u", "e" >>,
    << "T", "r", "u", "e" >>,
    << "T", "R", "U", "E" >>,
    << "1" >>,
    <<  >>,
    << " ", "t", "r", "u", "e" >>,
    << "f", "a", "l", "s", "e" >>,
    << "t", "r", "u", "e", " " >> }

ExampleWhitelist ==
  << "h", "t", "t", "p", "s", ":", "/", "/", "a", "p", "i", ".", "e", "x", "a", "m", "p", "l", "e", ".", "c", "o", "m", ",", " ", " ", "/", "f", "o", "o", ".", "c", "o", "m", " ", "," >>

ExampleQuery == << << WhitelistedUrlsKey, ExampleWhitelist >> >>

\* the intent of the documented end-to-end scenario
ExampleIntent ==
  [ name |-> << "O", "p", "e", "n", "A", "I" >>,
    whitelistedUrls |-> << << "a", "p", "i", ".", "o", "p", "e", "n", "a", "i", ".", "c", "o", "m" >> >>,
    allowsWeb |-> TRUE,
    rateLimit |-> IntNum(60) ]

\* a digit string too long for a finite double
HugeDigits == [i \in 1..(Len(DoubleOverflow) + 1) |-> "9"]

\* the digits of 10^21, the least integer written in exponent form
Sextillion == << "1" >> \o [i \in 1..21 |-> "0"]

\* an optional value: << >> for none, << v >> for v
Opt(S) == { << >> } \cup { << v >> : v \in S }

\* the Partial<KeyParams> that has the fields given
MkIntent(n, k, d, a, w, r) ==
  LET o == [name |-> n, key |-> k, description |-> d, allowsWeb |-> a,
            whitelistedUrls |-> w, rateLimit |-> r]
  IN  [f \in { g \in DOMAIN o : o[g] # << >> } |-> o[f][1]]

\* the pair of key k for an optional value, as a list
OptPair(k, o) == IF o = << >> THEN << >> ELSE << << k, o[1] >> >>

\* the URLSearchParams that has the pairs given, in this order
MkQuery(n, a, w, r, extra) ==
      extra \o OptPair(NameKey, n) \o OptPair(AllowsWebKey, a)
        \o OptPair(WhitelistedUrlsKey, w) \o OptPair(RateLimitKey, r)

SeqsUpTo(S, n) == UNION { [1..m -> S] : m \in 0..n }

RECURSIVE Concat(_)
Concat(ss) == IF ss = << >> THEN << >> ELSE ss[1] \o Concat(Tail(ss))

RawWhitelists == { Concat(ts) : ts \in SeqsUpTo(Range(UrlTokens), MaxTokens) }

UnrelatedPair == << << "u", "t", "m" >>, << "x", "=", "1" >> >>

Intents ==
  \* the strings vary
  { MkIntent(n, k, d, a, w, r) :
      n \in Opt(NameSamples),
      k \in Opt({ << >>, << "s", "k", "-", "1", "+", "/" >> }),
      d \in Opt({ << "d", " ", "e" >> }),
      a \in Opt(BOOLEAN),
      w \in Opt({ << >>, << << "a", ".", "b" >> >> }),
      r \in Opt({ IntNum(60) }) }
  \cup
  \* strings that are not well-formed
  { MkIntent(<< n >>, << k >>, << d >>, << >>, << >>, << >>) :
      n \in { << "a" >>, SurrogateSample },
      k \in { << "a" >>, SurrogateSample },
      d \in { << "a" >>, SurrogateSample } }
  \cup
  \* the whitelist varies
  { MkIntent(n, << >>, << >>, a, w, << >>) :
      n \in Opt({ << "a" >> }),
      a \in Opt({ TRUE }),
      w \in Opt(SeqsUpTo(UrlSamples, MaxUrls)) }
  \cup
  \* the rate limit varies
  { MkIntent(n, << >>, << >>, a, << >>, r) :
      n \in Opt({ << "a" >> }),
      a \in Opt(BOOLEAN),
      r \in Opt({ IntNum(i) : i \in (-2)..MaxRate }) }
  \cup
  { ExampleIntent }

RawQueries ==
  \* the whitelist varies
  { MkQuery(<< >>, << >>, w, << >>, x) :
      w \in Opt(RawWhitelists), x \in { << >>, << UnrelatedPair >> } }
  \cup
  \* the rate limit and allowsWeb vary
  { MkQuery(n, a, << >>, r, << >>) :
      n \in Opt({ << >>, << " ", "a", " " >> }),
      a \in Opt(AllowsWebSamples),
      r \in Opt(RateSamples \cup { HugeDigits, << "-" >> \o HugeDigits, Sextillion }) }
  \cup
  \* name, key and description vary
  { OptPair(NameKey, n) \o OptPair(KeyKey, k) \o OptPair(DescriptionKey, d) :
      n \in Opt({ << "a" >> }),
      k \in Opt({ << >>, << " ", "s", "k", " ", "1", " " >>, << "k", "&", "n", "a", "m", "e", "=", "z" >> }),
      d \in Opt({ << >>, << "d", " ", "e", " " >>, << "\t", "d", "\n" >> }) }
  \cup
  \* repeated keys
  { << << AllowsWebKey, << "f", "a", "l", "s", "e" >> >>, << AllowsWebKey, TrueStr >> >>,
    << << AllowsWebKey, TrueStr >>, << AllowsWebKey, << "1" >> >> >>,
    << << RateLimitKey, << "3" >> >>, << RateLimitKey, << "a" >> >> >>,
    ExampleQuery }

(***************************************************************************)
(* State: one use of the codec.  A producer holds an intent and the        *)
(* arguments of its call of buildKeyParamsUrl; the router turns the query  *)
(* string of a navigation into the URLSearchParams of the page landed on;  *)
(* the page decodes them with parseKeyParams.                              *)
(***************************************************************************)
VARIABLES
  params,             \* the intent of the producer
  args,               \* the arguments of buildKeyParamsUrl after params
  queryString,        \* what buildKeyParamsUrl returned, or null
  legacyQueryString,  \* what the earlier buildKeyParamsUrl returned, or null
  searchParams,       \* the URLSearchParams of the current location
  origin,             \* "landing": as the page was entered, "navigated": from queryString
  keyParams,          \* what parseKeyParams returned, or NoResult
  keyParamsRef,       \* the identity of the object keyParams, 0 when there is none
  allocated,          \* the number of objects parseKeyParams has created
  forwarded,          \* the decoded intent the page encoded again, or NoResult
  page,               \* the page component that is mounted
  user,               \* useUserContext().user
  projects,           \* CreateKeyPage: the projects state
  showKeyLimitModal,  \* CreateKeyPage: the key limit modal is shown
  loading,            \* DashboardPage: the loading state
  project,            \* DashboardPage: the project state, or null
  keys,               \* DashboardPage: the keys state
  formData,           \* DashboardPage: the form of the Add Key modal
  showAddKeyModal,    \* DashboardPage: the Add Key modal is shown
  effectDeps,         \* DashboardPage: the dependencies the query effect last ran with
  lastEvent,          \* the handler that ran last and the branch it took
  currentRequestUsage,    \* UsageAlert, UpgradeBanner: the usage state, or null
  requestLimit,           \* UsageAlert, UpgradeBanner: the limit state, or null
  pathname,               \* UpgradeBanner: location.pathname
  isNotFound,             \* DashboardPage: the isNotFound state
  deviceCheckKey,         \* DashboardPage: the deviceCheckKey state, or null
  playIntegrityConfig,    \* DashboardPage: the playIntegrityConfig state, or null
  fetched,                \* DashboardPage: how each request of fetchData ended
  newWhitelistedUrl,      \* DashboardPage: the text of the URL input of the form
  prefillCount,           \* DashboardPage: the number of times the query effect filled the form
  calls,                  \* useFetchProjects: the calls of fetchProjects, in the order they started
  creating,               \* CreateKeyPage: the creating state
  errorToast,             \* CreateKeyPage: the errorToast state, or null
  showCreateProjectModal, \* CreateKeyPage: the Create Project modal is shown
  createCall,             \* CreateKeyPage: the run of handleCreateProject
  error                   \* useFetchProjects, DashboardPage: the error state, or null

codecVars ==
  << params, args, queryString, legacyQueryString, searchParams, origin, keyParams,
     keyParamsRef, allocated, forwarded >>

pageVars ==
  << page, user, projects, showKeyLimitModal, loading, project, keys, formData,
     showAddKeyModal, effectDeps, lastEvent >>

alertVars == << currentRequestUsage, requestLimit, pathname >>

fetchVars == << isNotFound, deviceCheckKey, playIntegrityConfig, fetched >>

formVars == << newWhitelistedUrl, prefillCount >>

createVars == << creating, errorToast, showCreateProjectModal, createCall >>

moreVars == << alertVars, fetchVars, formVars, calls, createVars, error >>

vars == << codecVars, pageVars, moreVars >>

NoResult == [pending |-> TRUE]

\* the page holds no intent but the one it decodes from its query
NoIntent == [decoded |-> TRUE]

\* useState({ name: "", description: "", apiKey: "", whitelistedUrls: [],
\* rateLimit: -1, allowsWeb: false })
EmptyForm ==
  [ name |-> << >>, description |-> << >>, apiKey |-> << >>, whitelistedUrls |-> << >>,
    rateLimit |-> IntNum(-1), allowsWeb |-> FALSE ]

NoEvent == [handler |-> "none", branch |-> "none"]

\* useUserContext().user is null
NoUser == [signedOut |-> TRUE]

\* useState<Project | null>(null)
NoProject == [none |-> TRUE]

\* useState<number | null>(null)
NoNumber == [k |-> "null"]

\* useState<DeviceCheckKey | null>(null), useState<PlayIntegrityConfig | null>(null)
NoConfig == [none |-> TRUE]

\* fetchData has not run
NotFetched == [project |-> "pending"]

\* handleCreateProject is not running
NoCreateCall == [stage |-> "idle"]

\* the states of the components as they mount
AlertIdle ==
  /\ currentRequestUsage = NoNumber
  /\ requestLimit = NoNumber
  /\ pathname = "/"

FetchIdle ==
  /\ isNotFound = FALSE
  /\ deviceCheckKey = NoConfig
  /\ playIntegrityConfig = NoConfig
  /\ fetched = NotFetched

FormIdle ==
  /\ newWhitelistedUrl = << >>
  /\ prefillCount = 0

CreateIdle ==
  /\ creating = FALSE
  /\ errorToast = Null
  /\ showCreateProjectModal = FALSE
  /\ createCall = NoCreateCall

Idle ==
  /\ AlertIdle
  /\ FetchIdle
  /\ FormIdle
  /\ calls = << >>
  /\ CreateIdle
  /\ error = Null

\* no page component is mounted: the codec is used by itself
Unmounted ==
  /\ page = "none"
  /\ user = NoUser
  /\ projects = << >>
  /\ showKeyLimitModal = FALSE
  /\ loading = TRUE
  /\ project = NoProject
  /\ keys = << >>
  /\ formData = EmptyForm
  /\ showAddKeyModal = FALSE
  /\ effectDeps = << >>
  /\ lastEvent = NoEvent
  /\ Idle

Init ==
  /\ \/ /\ params \in Intents
        \* the marker argument varies for the intents of at most one URL
        /\ args \in IF IsSet(params, "whitelistedUrls") /\ Len(params.whitelistedUrls) > 1
                   THEN { << >> }
                   ELSE { << >>, << TRUE >>, << FALSE >> }
        /\ searchParams = << >>
     \/ /\ params = NoIntent
        /\ args = << >>
        /\ searchParams \in RawQueries
  /\ queryString = Null
  /\ legacyQueryString = Null
  /\ origin = "landing"
  /\ keyParams = NoResult
  /\ keyParamsRef = 0
  /\ allocated = 0
  /\ forwarded = NoResult
  /\ Unmounted

\* const params = buildKeyParamsUrl(keyParams, ...)
CallBuild ==
  /\ params # NoIntent
  /\ queryString = Null
  /\ queryString' = buildKeyParamsUrl(params, args)
  /\ UNCHANGED << params, args, legacyQueryString, searchParams, origin, keyParams,
                  keyParamsRef, allocated, forwarded >>
  /\ UNCHANGED pageVars
  /\ UNCHANGED moreVars

CallBuildLegacy ==
  /\ params # NoIntent
  /\ legacyQueryString = Null
  /\ legacyQueryString' = buildKeyParamsUrlLegacy(params, args)
  /\ UNCHANGED << params, args, queryString, searchParams, origin, keyParams,
                  keyParamsRef, allocated, forwarded >>
  /\ UNCHANGED pageVars
  /\ UNCHANGED moreVars

\* buildKeyParamsUrl(keyParams) of the intent the page decoded from its own
\* query: the page forwards what it was given
Forward ==
  /\ origin = "landing"
  /\ params = NoIntent
  /\ args = << >>
  /\ queryString = Null
  /\ keyParams # NoResult
  /\ queryString' = buildKeyParamsUrl(keyParams, args)
  /\ forwarded' = keyParams
  /\ UNCHANGED << params, args, legacyQueryString, searchParams, origin, keyParams,
                  keyParamsRef, allocated >>
  /\ UNCHANGED pageVars
  /\ UNCHANGED moreVars

\* navigate(`/projects/${id}/create-key?${params}`), and useSearchParams
\* on the page landed on
Navigate ==
  /\ queryString # Null
  /\ origin = "landing"
  /\ searchParams' = NewURLSearchParams(<< "?" >> \o queryString)
  /\ origin' = "navigated"
  /\ keyParams' = NoResult
  /\ keyParamsRef' = 0
  /\ UNCHANGED << params, args, queryString, legacyQueryString, allocated, forwarded >>
  /\ UNCHANGED pageVars
  /\ UNCHANGED moreVars

\* a decoder that removes the marker from the URLSearchParams it reads
DecodeConsuming ==
  /\ keyParams' = parseKeyParams(searchParams)
  /\ keyParamsRef' = allocated + 1
  /\ allocated' = allocated + 1
  /\ searchParams' = RemoveNamed(searchParams, OpenModalKey)
  /\ UNCHANGED << params, args, queryString, legacyQueryString, origin, forwarded >>
  /\ UNCHANGED pageVars
  /\ UNCHANGED moreVars

\* parseKeyParams(searchParams): the object returned is a new object
\* literal, and nothing else is written
Decode ==
  /\ keyParams' = parseKeyParams(searchParams)
  /\ keyParamsRef' = allocated + 1
  /\ allocated' = allocated + 1
  /\ UNCHANGED << params, args, queryString, legacyQueryString, searchParams, origin,
                  forwarded >>
  /\ UNCHANGED pageVars
  /\ UNCHANGED moreVars

\* const keyParams = parseKeyParams(searchParams), in the first render of
\* the page
CallParse ==
  /\ keyParams = NoResult
  /\ Decode

\* a later render of the page that was entered with the query: the body of
\* the component runs again and calls parseKeyParams again
Rerender ==
  /\ origin = "landing"
  /\ params = NoIntent
  /\ keyParams # NoResult
  /\ allocated < MaxDecodes
  /\ Decode

Next == CallBuild \/ CallBuildLegacy \/ Forward \/ Navigate \/ CallParse \/ Rerender

Spec == Init /\ [][Next]_vars

(***************************************************************************)
(* The pages.  CreateKeyPage (pages/CreateKeyPage.tsx, and its earlier     *)
(* version) decodes the query it was entered with, lets the user pick or   *)
(* create a project and navigates on with the intent encoded again;        *)
(* DashboardPage fetches its project and handles the query it was entered  *)
(* with in an effect.                                                      *)
(***************************************************************************)

\* user?.f !== undefined
HasLimit(u, f) == u # NoUser /\ IsSet(u, f)

\* user?.projectLimit !== undefined && user.projectLimit > 0 &&
\* projects.length >= user.projectLimit
ProjectLimitReached(u, ps) ==
  HasLimit(u, "projectLimit") /\ u.projectLimit > 0 /\ Len(ps) >= u.projectLimit

\* user?.projectLimit !== undefined && projects.length >= user.projectLimit
ProjectLimitReachedEarlier(u, ps) ==
  HasLimit(u, "projectLimit") /\ Len(ps) >= u.projectLimit

\* the key limit test without its sentinel test
KeyLimitReachedIgnoringSentinel(u, selectedProject) ==
  /\ HasLimit(u, "apiKeyLimit")
  /\ IsSet(selectedProject, "keys")
  /\ Len(selectedProject.keys) >= u.apiKeyLimit

\* user?.apiKeyLimit !== undefined && user.apiKeyLimit > 0 &&
\* selectedProject?.keys && selectedProject.keys.length >= user.apiKeyLimit
KeyLimitReachedForProject(u, selectedProject) ==
  /\ HasLimit(u, "apiKeyLimit")
  /\ u.apiKeyLimit > 0
  /\ IsSet(selectedProject, "keys")
  /\ Len(selectedProject.keys) >= u.apiKeyLimit

\* user?.apiKeyLimit !== undefined && keys.length >= user.apiKeyLimit
ApiKeyLimitReached(u, ks) ==
  HasLimit(u, "apiKeyLimit") /\ Len(ks) >= u.apiKeyLimit

\* the marker in any form
MarkerIsPresent(sp) == Has(sp, OpenModalKey)

\* the marker in any form but false, and no marker
MarkerIsNotFalse(sp) == Get(sp, OpenModalKey) # << "f", "a", "l", "s", "e" >>

\* searchParams.get("openModal") === "true"
MarkerIsTrue(sp) == Get(sp, OpenModalKey) = TrueStr

\* whitelistedUrlsParam.split(",").map(url => url.trim())
\*   .filter(url => url.length > 0), or []
DashboardWhitelistedUrls(whitelistedUrlsParam) ==
  IF Truthy(whitelistedUrlsParam)
  THEN LET pieces == Split(whitelistedUrlsParam, ",")
       IN  FilterNonEmpty([i \in DOMAIN pieces |-> Trim(pieces[i])])
  ELSE << >>

\* the form the query effect of DashboardPage sets
PrefilledForm(sp) ==
  [ name            |-> OrEmpty(Get(sp, NameKey)),
    description     |-> << >>,
    apiKey          |-> OrEmpty(Get(sp, KeyKey)),
    whitelistedUrls |-> DashboardWhitelistedUrls(OrEmpty(Get(sp, WhitelistedUrlsKey))),
    rateLimit       |-> IntNum(-1),
    allowsWeb       |-> Get(sp, AllowsWebKey) = TrueStr ]

\* the users of the pages
Users ==
  { NoUser, [id |-> "u"] }
    \cup { [id |-> "u", projectLimit |-> l, apiKeyLimit |-> l] : l \in (-1)..MaxLimit }

KeyLists == { [i \in 1..n |-> "k"] : n \in 0..MaxKeys }

\* what GET /me/projects answers: projects without keys, and after them
\* one without a keys field or with any of the key lists
ProjectLists ==
  { << >> } \cup
  UNION { { [i \in 1..n |-> IF i < n THEN [id |-> i, keys |-> << >>] ELSE last] :
              last \in { [id |-> n] } \cup { [id |-> n, keys |-> ks] : ks \in KeyLists } } :
          n \in 1..MaxProjects }

\* the queries a page is entered with
LandingQueries ==
  { << >>,
    NewURLSearchParams(buildKeyParamsUrl(ExampleIntent, << >>)),
    NewURLSearchParams(buildKeyParamsUrl(ExampleIntent, << FALSE >>)),
    << << NameKey, << "a" >> >>, << OpenModalKey, TrueStr >> >>,
    << << NameKey, << "a" >> >>, << OpenModalKey, << "T", "R", "U", "E" >> >> >>,
    << << NameKey, << "a" >> >>, << OpenModalKey, << "1" >> >> >>,
    << << NameKey, << "a" >> >>, << OpenModalKey, << >> >> >>,
    << << OpenModalKey, << "f", "a", "l", "s", "e" >> >>, << OpenModalKey, TrueStr >> >>,
    << << OpenModalKey, TrueStr >>, << OpenModalKey, << "f", "a", "l", "s", "e" >> >> >>,
    << << KeyKey, << "s", "k" >> >>, << DescriptionKey, << "d" >> >>,
       << OpenModalKey, TrueStr >> >>,
    << << WhitelistedUrlsKey, << " ", "a", ".", "b", ",", ",", "h", "t", "t", "p", "s", ":", "/", "/", "x" >> >>, << OpenModalKey, TrueStr >> >>,
    << << WhitelistedUrlsKey, << "h", "t", "t", "p", "s", ":", "/", "/", "h", "t", "t", "p", "s", ":", "/", "/", "a", ".", "b" >> >> >>,
    << << RateLimitKey, Sextillion >>, << AllowsWebKey, TrueStr >> >> }

InitPages ==
  /\ page \in { "CreateKeyPage", "CreateKeyPageEarlier", "DashboardPage" }
  /\ searchParams \in LandingQueries
  /\ user \in Users
  /\ params = NoIntent
  /\ args = << >>
  /\ queryString = Null
  /\ legacyQueryString = Null
  /\ origin = "landing"
  /\ keyParams = NoResult
  /\ keyParamsRef = 0
  /\ allocated = 0
  /\ forwarded = NoResult
  /\ projects = << >>
  /\ showKeyLimitModal = FALSE
  /\ loading = TRUE
  /\ project = NoProject
  /\ keys = << >>
  /\ formData = EmptyForm
  /\ showAddKeyModal = FALSE
  /\ effectDeps = << >>
  /\ lastEvent = NoEvent
  /\ Idle

Event(handler, branch) == [handler |-> handler, branch |-> branch]

\* a render of CreateKeyPage: const keyParams = parseKeyParams(searchParams)
Render ==
  /\ page \in { "CreateKeyPage", "CreateKeyPageEarlier" }
  /\ CallParse

\* the message of the Error a failed request is turned into
FailureMessage == << "F", "a", "i", "l", "e", "d" >>

\* useEffect(() => { fetchProjects(); }, [fetchProjects]), the call taken
\* as one step: the answer replaces projects, a failure leaves them and
\* sets error; loading ends
FetchProjects ==
  /\ page \in { "CreateKeyPage", "CreateKeyPageEarlier" }
  /\ loading
  /\ \/ projects' \in ProjectLists /\ error' = Null
     \/ projects' = projects /\ error' = FailureMessage
  /\ loading' = FALSE
  /\ UNCHANGED codecVars
  /\ UNCHANGED << page, user, showKeyLimitModal, project, keys, formData, showAddKeyModal,
                  effectDeps, lastEvent >>
  /\ UNCHANGED << alertVars, fetchVars, formVars, calls, createVars >>

\* onClick of the Retry button of the error state, up to the first await
\* of fetchProjects
Retry ==
  /\ page \in { "CreateKeyPage", "CreateKeyPageEarlier" }
  /\ ~loading
  /\ error # Null
  /\ loading' = TRUE
  /\ error' = Null
  /\ UNCHANGED codecVars
  /\ UNCHANGED << page, user, projects, showKeyLimitModal, project, keys, formData,
                  showAddKeyModal, effectDeps, lastEvent >>
  /\ UNCHANGED << alertVars, fetchVars, formVars, calls, createVars >>

\* const params = buildKeyParamsUrl(keyParams, ...); navigate(`...?${params}`):
\* the page at target is mounted with the query params
NavigateWithIntent(target, buildArgs) ==
  /\ queryString' = buildKeyParamsUrl(keyParams, buildArgs)
  /\ args' = buildArgs
  /\ forwarded' = keyParams
  /\ searchParams' = NewURLSearchParams(<< "?" >> \o queryString')
  /\ origin' = "navigated"
  /\ keyParams' = NoResult
  /\ keyParamsRef' = 0
  /\ page' = target
  /\ loading' = TRUE
  /\ project' = NoProject
  /\ keys' = << >>
  /\ formData' = EmptyForm
  /\ showAddKeyModal' = FALSE
  /\ showKeyLimitModal' = FALSE
  /\ effectDeps' = << >>
  /\ errorToast' = Null
  /\ error' = Null
  /\ UNCHANGED << params, legacyQueryString, allocated, user >>
  /\ UNCHANGED << alertVars, fetchVars, formVars, calls >>

\* handleSelectProject ran for the i-th project of the list
SelectEvent(branch, i) ==
  [handler |-> "handleSelectProject", branch |-> branch, selected |-> i]

\* handleSelectProject of pages/CreateKeyPage.tsx
handleSelectProject ==
  /\ page = "CreateKeyPage"
  /\ keyParams # NoResult
  /\ ~loading
  /\ error = Null
  /\ \E i \in DOMAIN projects :
       LET selectedProject == projects[i]
       IN  IF KeyLimitReachedForProject(user, selectedProject)
           THEN /\ showKeyLimitModal' = TRUE
                /\ lastEvent' = SelectEvent("limit", i)
                /\ UNCHANGED codecVars
                /\ UNCHANGED << page, user, projects, loading, project, keys, formData,
                                showAddKeyModal, effectDeps >>
                /\ UNCHANGED moreVars
           ELSE /\ NavigateWithIntent("CreateKeyRoute", << >>)
                /\ lastEvent' = SelectEvent("navigated", i)
                /\ UNCHANGED << projects, creating, showCreateProjectModal, createCall >>

\* handleSelectProject of the earlier CreateKeyPage
handleSelectProjectEarlier ==
  /\ page = "CreateKeyPageEarlier"
  /\ keyParams # NoResult
  /\ ~loading
  /\ error = Null
  /\ projects # << >>
  /\ NavigateWithIntent("DashboardPage", << TRUE >>)
  /\ lastEvent' = Event("handleSelectProject", "navigated")
  /\ UNCHANGED << projects, creating, showCreateProjectModal, createCall >>

\* handleCloseKeyLimitModal, with its timeout
handleCloseKeyLimitModal ==
  /\ page = "CreateKeyPage"
  /\ showKeyLimitModal
  /\ showKeyLimitModal' = FALSE
  /\ UNCHANGED codecVars
  /\ UNCHANGED << page, user, projects, loading, project, keys, formData, showAddKeyModal,
                  effectDeps, lastEvent >>
  /\ UNCHANGED moreVars

\* handleCreateProject from its limit check on: at the limit the user is
\* asked to upgrade; otherwise the project is POSTed and, when the answer
\* is ok, the list is fetched again and the page navigates on if the new
\* project has an id
CreateProject(limitReached, target, buildArgs) ==
  IF limitReached
  THEN /\ \E confirmed \in BOOLEAN : page' = IF confirmed THEN "PricingPage" ELSE page
       /\ lastEvent' = Event("handleCreateProject", "limit")
       /\ UNCHANGED codecVars
       /\ UNCHANGED << user, projects, showKeyLimitModal, loading, project, keys, formData,
                       showAddKeyModal, effectDeps >>
       /\ UNCHANGED moreVars
  ELSE /\ lastEvent' = Event("handleCreateProject", "posted")
       /\ \E ok \in BOOLEAN, hasId \in BOOLEAN :
            IF ~ok
            THEN /\ errorToast' = FailureMessage
                 /\ UNCHANGED codecVars
                 /\ UNCHANGED << page, user, projects, showKeyLimitModal, loading, project,
                                 keys, formData, showAddKeyModal, effectDeps >>
                 /\ UNCHANGED << alertVars, fetchVars, formVars, calls, creating,
                                 showCreateProjectModal, createCall, error >>
            ELSE /\ projects' = Append(projects, [id |-> Len(projects) + 1, keys |-> << >>])
                 /\ IF hasId
                    THEN /\ NavigateWithIntent(target, buildArgs)
                         /\ UNCHANGED << creating, showCreateProjectModal, createCall >>
                    ELSE /\ UNCHANGED codecVars
                         /\ UNCHANGED << page, user, showKeyLimitModal, loading, project, keys,
                                         formData, showAddKeyModal, effectDeps >>
                         /\ UNCHANGED moreVars

\* handleCreateProject of pages/CreateKeyPage.tsx
handleCreateProject ==
  /\ page = "CreateKeyPage"
  /\ keyParams # NoResult
  /\ ~loading
  /\ error = Null
  /\ Len(projects) <= MaxProjects
  /\ CreateProject(ProjectLimitReached(user, projects), "CreateKeyRoute", << >>)

\* handleCreateProject of the earlier CreateKeyPage
handleCreateProjectEarlier ==
  /\ page = "CreateKeyPageEarlier"
  /\ keyParams # NoResult
  /\ ~loading
  /\ error = Null
  /\ Len(projects) <= MaxProjects
  /\ CreateProject(ProjectLimitReachedEarlier(user, projects), "DashboardPage", << TRUE >>)

\* the fetchData effect of DashboardPage: the project cannot be fetched,
\* or the project and its keys are set; loading ends
FetchData ==
  /\ page = "DashboardPage"
  /\ loading
  /\ \/ /\ UNCHANGED << project, keys >>
        /\ isNotFound' = TRUE
        /\ fetched' = [project |-> "notOk"]
     \/ /\ project' = [id |-> 1]
        /\ keys' \in KeyLists
        /\ isNotFound' = FALSE
        /\ fetched' = [project |-> "ok", keys |-> "ok", deviceCheck |-> "notOk",
                        playIntegrity |-> "notOk"]
  /\ loading' = FALSE
  /\ UNCHANGED codecVars
  /\ UNCHANGED << page, user, projects, showKeyLimitModal, formData, showAddKeyModal,
                  effectDeps, lastEvent >>
  /\ UNCHANGED << alertVars, deviceCheckKey, playIntegrityConfig, formVars, calls, createVars,
                  error >>

\* the dependencies of the query effect in the current render
QueryEffectDeps == << loading, project, searchParams >>

\* the query effect of DashboardPage, run when its dependencies changed
QueryEffect ==
  /\ page = "DashboardPage"
  /\ effectDeps # QueryEffectDeps
  /\ effectDeps' = QueryEffectDeps
  /\ IF ~(loading \/ project = NoProject) /\ MarkerIsTrue(searchParams)
     THEN /\ formData' = PrefilledForm(searchParams)
          /\ showAddKeyModal' = TRUE
          /\ searchParams' = << >>
          /\ prefillCount' = prefillCount + 1
     ELSE UNCHANGED << formData, showAddKeyModal, searchParams, prefillCount >>
  /\ UNCHANGED << params, args, queryString, legacyQueryString, origin, keyParams,
                  keyParamsRef, allocated, forwarded >>
  /\ UNCHANGED << page, user, projects, showKeyLimitModal, loading, project, keys, lastEvent >>
  /\ UNCHANGED << alertVars, fetchVars, newWhitelistedUrl, calls, createVars, error >>

\* the page is shown with its project and its effects have run
Interactive ==
  /\ page = "DashboardPage"
  /\ ~loading
  /\ project # NoProject
  /\ effectDeps = QueryEffectDeps

\* onClick of the Add Key button
AddKeyButton ==
  /\ Interactive
  /\ IF ApiKeyLimitReached(user, keys)
     THEN /\ lastEvent' = Event("AddKeyButton", "limit")
          /\ UNCHANGED showAddKeyModal
     ELSE /\ lastEvent' = Event("AddKeyButton", "opened")
          /\ showAddKeyModal' = TRUE
  /\ UNCHANGED codecVars
  /\ UNCHANGED << page, user, projects, showKeyLimitModal, loading, project, keys, formData,
                  effectDeps >>
  /\ UNCHANGED moreVars

\* handleCreateKey: at the limit nothing is sent; otherwise the key is
\* POSTed and, when the answer is ok, the modal closes, the form is reset
\* and the keys are fetched again
handleCreateKey ==
  /\ Interactive
  /\ showAddKeyModal
  /\ Len(keys) <= MaxKeys
  /\ IF ApiKeyLimitReached(user, keys)
     THEN /\ lastEvent' = Event("handleCreateKey", "limit")
          /\ UNCHANGED << showAddKeyModal, formData, keys, errorToast >>
     ELSE /\ lastEvent' = Event("handleCreateKey", "posted")
          /\ \E ok \in BOOLEAN :
               IF ok
               THEN /\ showAddKeyModal' = FALSE
                    /\ formData' = EmptyForm
                    /\ keys' = Append(keys, "k")
                    /\ UNCHANGED errorToast
               ELSE /\ errorToast' = FailureMessage
                    /\ UNCHANGED << showAddKeyModal, formData, keys >>
  /\ UNCHANGED codecVars
  /\ UNCHANGED << page, user, projects, showKeyLimitModal, loading, project, effectDeps >>
  /\ UNCHANGED << alertVars, fetchVars, formVars, calls, creating, showCreateProjectModal,
                  createCall, error >>

\* handleCloseModal of DashboardPage, with its timeout
handleCloseModal ==
  /\ Interactive
  /\ showAddKeyModal
  /\ showAddKeyModal' = FALSE
  /\ formData' = EmptyForm
  /\ newWhitelistedUrl' = << >>
  /\ UNCHANGED codecVars
  /\ UNCHANGED << page, user, projects, showKeyLimitModal, loading, project, keys,
                  effectDeps, lastEvent >>
  /\ UNCHANGED << alertVars, fetchVars, prefillCount, calls, createVars, error >>

NextPages ==
  \/ Render
  \/ FetchProjects
  \/ Retry
  \/ handleSelectProject
  \/ handleSelectProjectEarlier
  \/ handleCloseKeyLimitModal
  \/ handleCreateProject
  \/ handleCreateProjectEarlier
  \/ FetchData
  \/ QueryEffect
  \/ AddKeyButton
  \/ handleCreateKey
  \/ handleCloseModal

SpecPages == InitPages /\ [][NextPages]_vars

(***************************************************************************)
(* The usage alert.  UsageAlert and UpgradeBanner fetch the user's request *)
(* usage and limit every 30 seconds and show the Low Request Limit alert   *)
(* from them.                                                              *)
(***************************************************************************)

\* the codec is not used, and no page component is mounted
Standalone ==
  /\ params = NoIntent
  /\ args = << >>
  /\ searchParams = << >>
  /\ queryString = Null
  /\ legacyQueryString = Null
  /\ origin = "landing"
  /\ keyParams = NoResult
  /\ keyParamsRef = 0
  /\ allocated = 0
  /\ forwarded = NoResult
  /\ Unmounted

\* currentRequestUsage !== null && requestLimit !== null &&
\* requestLimit > 0 && (currentRequestUsage / requestLimit) >= 0.9
\* (the quotient of two integers below 2^53 is at least the double 0.9
\* exactly when ten times the usage is at least nine times the limit)
shouldShowAlert(usage, limit) ==
  /\ usage # NoNumber
  /\ limit # NoNumber
  /\ limit.v > 0
  /\ 10 * usage.v >= 9 * limit.v

\* !isPricingPage && currentRequestUsage !== null && ...
shouldShowBanner(path, usage, limit) ==
  /\ path # "/pricing"
  /\ shouldShowAlert(usage, limit)

\* what GET /me answers for currentRequestUsage and requestLimit, after
\* ?? null
UsageAnswers == { NoNumber } \cup { IntNum(n) : n \in 0..(MaxRequests + 1) }

LimitAnswers == { NoNumber } \cup { IntNum(n) : n \in (-1)..MaxRequests }

InitUsage == Standalone

\* fetchUserData: an ok answer sets both states, anything else leaves them
fetchUserData ==
  /\ \E ok \in BOOLEAN :
       IF ok
       THEN /\ currentRequestUsage' \in UsageAnswers
            /\ requestLimit' \in LimitAnswers
       ELSE UNCHANGED << currentRequestUsage, requestLimit >>
  /\ UNCHANGED pathname
  /\ UNCHANGED << codecVars, pageVars >>
  /\ UNCHANGED << fetchVars, formVars, calls, createVars, error >>

\* the location changes, by handleUpgrade or by a link
LocationChange ==
  /\ pathname' \in { "/", "/pricing" } \ { pathname }
  /\ UNCHANGED << currentRequestUsage, requestLimit >>
  /\ UNCHANGED << codecVars, pageVars >>
  /\ UNCHANGED << fetchVars, formVars, calls, createVars, error >>

NextUsage == fetchUserData \/ LocationChange

SpecUsage == InitUsage /\ [][NextUsage]_vars

(***************************************************************************)
(* The form of the Add Key modal of DashboardPage: the name input fills    *)
(* the whitelisted URLs from a directory of popular APIs, and URLs are     *)
(* added and removed one at a time.                                        *)
(***************************************************************************)

\* URLs the form holds before handleAddWhitelistedUrl stops being offered
MaxFormUrls == 2

\* const API_DIRECTORY: Record<string, string[]>, in the order of its keys
API_DIRECTORY ==
  <<
     << << "o", "p", "e", "n", "a", "i" >>,
        << << "a", "p", "i", ".", "o", "p", "e", "n", "a", "i", ".", "c", "o", "m" >> >> >>,
     << << "o", "p", "e", "n", " ", "a", "i" >>,
        << << "a", "p", "i", ".", "o", "p", "e", "n", "a", "i", ".", "c", "o", "m" >> >> >>,
     << << "o", "p", "e", "n", "-", "a", "i" >>,
        << << "a", "p", "i", ".", "o", "p", "e", "n", "a", "i", ".", "c", "o", "m" >> >> >>,
     << << "c", "l", "a", "u", "d", "e" >>,
        << << "a", "p", "i", ".", "a", "n", "t", "h", "r", "o", "p", "i", "c", ".", "c", "o", "m" >> >> >>,
     << << "a", "n", "t", "h", "r", "o", "p", "i", "c" >>,
        << << "a", "p", "i", ".", "a", "n", "t", "h", "r", "o", "p", "i", "c", ".", "c", "o", "m" >> >> >>,
     << << "o", "p", "e", "n", "r", "o", "u", "t", "e", "r" >>,
        << << "o", "p", "e", "n", "r", "o", "u", "t", "e", "r", ".", "a", "i" >> >> >>,
     << << "o", "p", "e", "n", " ", "r", "o", "u", "t", "e", "r" >>,
        << << "o", "p", "e", "n", "r", "o", "u", "t", "e", "r", ".", "a", "i" >> >> >>,
     << << "o", "p", "e", "n", "-", "r", "o", "u", "t", "e", "r" >>,
        << << "o", "p", "e", "n", "r", "o", "u", "t", "e", "r", ".", "a", "i" >> >> >>,
     << << "g", "r", "o", "q" >>,
        << << "a", "p", "i", ".", "g", "r", "o", "q", ".", "c", "o", "m" >> >> >>,
     << << "m", "i", "s", "t", "r", "a", "l" >>,
        << << "a", "p", "i", ".", "m", "i", "s", "t", "r", "a", "l", ".", "a", "i" >> >> >>,
     << << "c", "o", "h", "e", "r", "e" >>,
        << << "a", "p", "i", ".", "c", "o", "h", "e", "r", "e", ".", "c", "o", "m" >> >> >>,
     << << "t", "o", "g", "e", "t", "h", "e", "r" >>,
        << << "a", "p", "i", ".", "t", "o", "g", "e", "t", "h", "e", "r", ".", "x", "y", "z" >> >> >>,
     << << "p", "e", "r", "p", "l", "e", "x", "i", "t", "y" >>,
        << << "a", "p", "i", ".", "p", "e", "r", "p", "l", "e", "x", "i", "t", "y", ".", "a", "i" >> >> >>,
     << << "g", "e", "m", "i", "n", "i" >>,
        << << "g", "e", "n", "e", "r", "a", "t", "i", "v", "e", "l", "a", "n", "g", "u", "a", "g", "e", ".", "g", "o", "o", "g", "l", "e", "a", "p", "i", "s", ".", "c", "o", "m" >> >> >>,
     << << "g", "o", "o", "g", "l", "e" >>,
        << << "g", "e", "n", "e", "r", "a", "t", "i", "v", "e", "l", "a", "n", "g", "u", "a", "g", "e", ".", "g", "o", "o", "g", "l", "e", "a", "p", "i", "s", ".", "c", "o", "m" >> >> >>,
     << << "g", "o", "o", "g", "l", "e", " ", "a", "i" >>,
        << << "g", "e", "n", "e", "r", "a", "t", "i", "v", "e", "l", "a", "n", "g", "u", "a", "g", "e", ".", "g", "o", "o", "g", "l", "e", "a", "p", "i", "s", ".", "c", "o", "m" >> >> >>,
     << << "x", "a", "i" >>,
        << << "a", "p", "i", ".", "x", ".", "a", "i" >> >> >>,
     << << "x", " ", "a", "i" >>,
        << << "a", "p", "i", ".", "x", ".", "a", "i" >> >> >>,
     << << "r", "e", "p", "l", "i", "c", "a", "t", "e" >>,
        << << "a", "p", "i", ".", "r", "e", "p", "l", "i", "c", "a", "t", "e", ".", "c", "o", "m" >> >> >>,
     << << "s", "t", "a", "b", "i", "l", "i", "t", "y" >>,
        << << "a", "p", "i", ".", "s", "t", "a", "b", "i", "l", "i", "t", "y", ".", "a", "i" >> >> >>,
     << << "s", "t", "a", "b", "i", "l", "i", "t", "y", " ", "a", "i" >>,
        << << "a", "p", "i", ".", "s", "t", "a", "b", "i", "l", "i", "t", "y", ".", "a", "i" >> >> >>,
     << << "h", "u", "g", "g", "i", "n", "g", "f", "a", "c", "e" >>,
        << << "a", "p", "i", "-", "i", "n", "f", "e", "r", "e", "n", "c", "e", ".", "h", "u", "g", "g", "i", "n", "g", "f", "a", "c", "e", ".", "c", "o" >> >> >>,
     << << "h", "u", "g", "g", "i", "n", "g", " ", "f", "a", "c", "e" >>,
        << << "a", "p", "i", "-", "i", "n", "f", "e", "r", "e", "n", "c", "e", ".", "h", "u", "g", "g", "i", "n", "g", "f", "a", "c", "e", ".", "c", "o" >> >> >>,
     << << "h", "u", "g", "g", "i", "n", "g", "-", "f", "a", "c", "e" >>,
        << << "a", "p", "i", "-", "i", "n", "f", "e", "r", "e", "n", "c", "e", ".", "h", "u", "g", "g", "i", "n", "g", "f", "a", "c", "e", ".", "c", "o" >> >> >>,
     << << "a", "l", "e", "p", "h" >>,
        << << "a", "p", "i", ".", "a", "l", "e", "p", "h", "-", "a", "l", "p", "h", "a", ".", "c", "o", "m" >> >> >>,
     << << "a", "l", "e", "p", "h", " ", "a", "l", "p", "h", "a" >>,
        << << "a", "p", "i", ".", "a", "l", "e", "p", "h", "-", "a", "l", "p", "h", "a", ".", "c", "o", "m" >> >> >>,
     << << "a", "l", "e", "p", "h", "-", "a", "l", "p", "h", "a" >>,
        << << "a", "p", "i", ".", "a", "l", "e", "p", "h", "-", "a", "l", "p", "h", "a", ".", "c", "o", "m" >> >> >>,
     << << "a", "i", "2", "1" >>,
        << << "a", "p", "i", ".", "a", "i", "2", "1", ".", "c", "o", "m" >> >> >>,
     << << "a", "i", "2", "1", " ", "l", "a", "b", "s" >>,
        << << "a", "p", "i", ".", "a", "i", "2", "1", ".", "c", "o", "m" >> >> >>,
     << << "a", "i", "2", "1", "-", "l", "a", "b", "s" >>,
        << << "a", "p", "i", ".", "a", "i", "2", "1", ".", "c", "o", "m" >> >> >>,
     << << "n", "v", "i", "d", "i", "a" >>,
        << << "i", "n", "t", "e", "g", "r", "a", "t", "e", ".", "a", "p", "i", ".", "n", "v", "i", "d", "i", "a", ".", "c", "o", "m" >> >> >>,
     << << "n", "v", "i", "d", "i", "a", " ", "n", "i", "m", "s" >>,
        << << "i", "n", "t", "e", "g", "r", "a", "t", "e", ".", "a", "p", "i", ".", "n", "v", "i", "d", "i", "a", ".", "c", "o", "m" >> >> >>,
     << << "n", "v", "i", "d", "i", "a", "-", "n", "i", "m", "s" >>,
        << << "i", "n", "t", "e", "g", "r", "a", "t", "e", ".", "a", "p", "i", ".", "n", "v", "i", "d", "i", "a", ".", "c", "o", "m" >> >> >>
  >>

\* name.toLowerCase()
ToLowerCase(s) == [i \in DOMAIN s |-> ToLower(s[i])]

\* the function Object, which API_DIRECTORY["constructor"] finds on the
\* prototype of the object literal; it is not a list and its length is 1:
\* written as the list of one item that names it
ObjectFunction ==
  << << "[", "F", "u", "n", "c", "t", "i", "o", "n", ":", " ", "O", "b", "j", "e", "c", "t", "]" >> >>

\* Object.prototype, which API_DIRECTORY["__proto__"] finds; it has no
\* length: written as the list without items
ObjectPrototype == << >>

\* the keys of the directory that are normalizedName
OwnKeys(normalizedName) == { i \in DOMAIN API_DIRECTORY : API_DIRECTORY[i][1] = normalizedName }

\* API_DIRECTORY[normalizedName] is truthy
DirectMatch(normalizedName) ==
  \/ OwnKeys(normalizedName) # {}
  \/ normalizedName = << "c", "o", "n", "s", "t", "r", "u", "c", "t", "o", "r" >>
  \/ normalizedName = << "_", "_", "p", "r", "o", "t", "o", "_", "_" >>

\* API_DIRECTORY[normalizedName]
DirectValue(normalizedName) ==
  IF OwnKeys(normalizedName) # {}
  THEN API_DIRECTORY[CHOOSE i \in OwnKeys(normalizedName) : TRUE][2]
  ELSE IF normalizedName = << "c", "o", "n", "s", "t", "r", "u", "c", "t", "o", "r" >>
  THEN ObjectFunction
  ELSE ObjectPrototype

\* normalizedName.startsWith(key)
StartsWith(s, key) == Len(s) >= Len(key) /\ Take(s, Len(key)) = key

\* the characters of /[\s\-_]/
PartSeparators == WhiteSpace \cup { "-", "_" }

\* normalizedName.split(/[\s\-_]+/), as the set of its parts that are not
\* empty: the longest runs of characters that are no separators
NameParts(s) ==
  { SubSeq(s, r[1], r[2]) :
      r \in { q \in (DOMAIN s) \X (DOMAIN s) :
                /\ q[1] <= q[2]
                /\ \A k \in q[1]..q[2] : s[k] \notin PartSeparators
                /\ q[1] = 1 \/ s[q[1] - 1] \in PartSeparators
                /\ q[2] = Len(s) \/ s[q[2] + 1] \in PartSeparators } }

\* the directory entries the partial match accepts
PartialMatches(normalizedName) ==
  { i \in DOMAIN API_DIRECTORY :
      \/ StartsWith(normalizedName, API_DIRECTORY[i][1])
      \/ API_DIRECTORY[i][1] \in NameParts(normalizedName) }

getWhitelistedUrlsFromName(name) ==
  LET normalizedName == Trim(ToLowerCase(name))
  IN  IF name = << >> THEN << >>
      ELSE IF DirectMatch(normalizedName) THEN DirectValue(normalizedName)
      ELSE IF Len(normalizedName) >= 3 /\ PartialMatches(normalizedName) # {}
      THEN LET found == PartialMatches(normalizedName)
           IN  API_DIRECTORY[CHOOSE i \in found : \A j \in found : i <= j][2]
      ELSE << >>

\* what the user types into the name input
TypedNames ==
  { << >>,
    << " " >>,
    << "x", "y" >>,
    << "s", "t", "r", "i", "p", "e" >>,
    << "o", "p", "e", "n", "a", "i" >>,
    << " ", "O", "p", "e", "n", "A", "I", " " >>,
    << "m", "y", " ", "g", "r", "o", "q", " ", "k", "e", "y" >>,
    << "c", "o", "n", "s", "t", "r", "u", "c", "t", "o", "r" >> }

\* what the user types into the URL input
TypedUrls ==
  { << >>,
    << " " >>,
    << "a", ".", "b" >>,
    << " ", "h", "t", "t", "p", "s", ":", "/", "/", "a", ".", "b" >>,
    << "H", "T", "T", "P", "S", ":", "/", "/" >> }

\* the queries the page of the form is entered with
FormQueries ==
  { << >>,
    << << NameKey, << "a" >> >>, << KeyKey, << "s", "k" >> >> >>,
    << << NameKey, << "a" >> >>, << KeyKey, << "s", "k" >> >>, << OpenModalKey, TrueStr >> >>,
    << << NameKey, << "o", "p", "e", "n", "a", "i" >> >>,
       << WhitelistedUrlsKey, << "a", ".", "b", ",", "a", ".", "b" >> >>, << OpenModalKey, TrueStr >> >> }

\* DashboardPage when fetchData has set the project and found no keys and
\* no device configuration, before the query effect handles the query
InitForm ==
  /\ page = "DashboardPage"
  /\ searchParams \in FormQueries
  /\ user = [id |-> "u"]
  /\ params = NoIntent
  /\ args = << >>
  /\ queryString = Null
  /\ legacyQueryString = Null
  /\ origin = "landing"
  /\ keyParams = NoResult
  /\ keyParamsRef = 0
  /\ allocated = 0
  /\ forwarded = NoResult
  /\ projects = << >>
  /\ showKeyLimitModal = FALSE
  /\ loading = FALSE
  /\ project = [id |-> 1]
  /\ keys = << >>
  /\ formData = EmptyForm
  /\ showAddKeyModal = FALSE
  /\ effectDeps = << TRUE, NoProject, searchParams >>
  /\ lastEvent = NoEvent
  /\ AlertIdle
  /\ isNotFound = FALSE
  /\ deviceCheckKey = NoConfig
  /\ playIntegrityConfig = NoConfig
  /\ fetched = [project |-> "ok", keys |-> "ok", deviceCheck |-> "notOk",
                 playIntegrity |-> "notOk"]
  /\ FormIdle
  /\ calls = << >>
  /\ CreateIdle
  /\ error = Null

\* the form of the Add Key modal is shown
FormShown == Interactive /\ showAddKeyModal

\* onChange of the URL input: setNewWhitelistedUrl(e.target.value)
setNewWhitelistedUrl ==
  /\ FormShown
  /\ newWhitelistedUrl' \in TypedUrls \ { newWhitelistedUrl }
  /\ UNCHANGED << codecVars, pageVars >>
  /\ UNCHANGED << alertVars, fetchVars, prefillCount, calls, createVars, error >>

\* handleAddWhitelistedUrl(false)
handleAddWhitelistedUrl ==
  /\ FormShown
  /\ Len(formData.whitelistedUrls) < MaxFormUrls
  /\ LET url == newWhitelistedUrl
         cleanUrl == StripLeadingSlashes(StripProtocol(Trim(url)))
     IN  IF Trim(url) = << >>
         THEN UNCHANGED << formData, newWhitelistedUrl >>
         ELSE /\ formData' =
                   IF cleanUrl \in Range(formData.whitelistedUrls)
                   THEN formData
                   ELSE [formData EXCEPT !.whitelistedUrls = Append(@, cleanUrl)]
              /\ newWhitelistedUrl' = << >>
  /\ UNCHANGED codecVars
  /\ UNCHANGED << page, user, projects, showKeyLimitModal, loading, project, keys,
                  showAddKeyModal, effectDeps, lastEvent >>
  /\ UNCHANGED << alertVars, fetchVars, prefillCount, calls, createVars, error >>

\* handleRemoveWhitelistedUrl(url, false), for a URL of the list
handleRemoveWhitelistedUrl ==
  /\ FormShown
  /\ \E i \in DOMAIN formData.whitelistedUrls :
       LET url == formData.whitelistedUrls[i]
       IN  formData' = [formData EXCEPT
                          !.whitelistedUrls = SelectSeq(@, LAMBDA u : u # url)]
  /\ UNCHANGED codecVars
  /\ UNCHANGED << page, user, projects, showKeyLimitModal, loading, project, keys,
                  showAddKeyModal, effectDeps, lastEvent >>
  /\ UNCHANGED moreVars

\* handleNameChange ran with the name typed
NameEvent(name) == [handler |-> "handleNameChange", branch |-> "typed", name |-> name]

\* !name.trim() ? [] : (autoUrls.length > 0 ? autoUrls : formData.whitelistedUrls)
NewWhitelistedUrls(name, autoUrls, whitelistedUrls) ==
  IF Trim(name) = << >> THEN << >>
  ELSE IF Len(autoUrls) > 0 THEN autoUrls
  ELSE whitelistedUrls

\* handleNameChange(name, false), and the render that follows: the list of
\* the form is shown with formData.whitelistedUrls.map, which throws for the
\* function Object and unmounts the page
handleNameChange ==
  /\ FormShown
  /\ \E name \in TypedNames :
       LET autoUrls == getWhitelistedUrlsFromName(name)
       IN  /\ formData' =
                [formData EXCEPT
                   !.name = name,
                   !.whitelistedUrls = NewWhitelistedUrls(name, autoUrls, @)]
           /\ page' = IF formData'.whitelistedUrls = ObjectFunction THEN "none" ELSE page
           /\ lastEvent' = NameEvent(name)
  /\ UNCHANGED codecVars
  /\ UNCHANGED << user, projects, showKeyLimitModal, loading, project, keys, showAddKeyModal,
                  effectDeps >>
  /\ UNCHANGED moreVars

\* what PUT /me/projects/:id answers
UpdatedProject == [id |-> 1, name |-> "renamed"]

\* handleUpdateProject: the answer replaces the project, a failure sets
\* the error toast
handleUpdateProject ==
  /\ Interactive
  /\ project # UpdatedProject
  /\ \E ok \in BOOLEAN :
       IF ok
       THEN project' = UpdatedProject /\ UNCHANGED errorToast
       ELSE errorToast' = FailureMessage /\ UNCHANGED project
  /\ UNCHANGED codecVars
  /\ UNCHANGED << page, user, projects, showKeyLimitModal, loading, keys, formData,
                  showAddKeyModal, effectDeps, lastEvent >>
  /\ UNCHANGED << alertVars, fetchVars, formVars, calls, creating, showCreateProjectModal,
                  createCall, error >>

NextForm ==
  \/ QueryEffect
  \/ AddKeyButton
  \/ handleCloseModal
  \/ setNewWhitelistedUrl
  \/ handleAddWhitelistedUrl
  \/ handleRemoveWhitelistedUrl
  \/ handleNameChange
  \/ handleUpdateProject

SpecForm == InitForm /\ [][NextForm]_vars

(***************************************************************************)
(* fetchData of DashboardPage with its awaits: the project, then the keys, *)
(* the DeviceCheck key and the Play Integrity configuration, each request  *)
(* a step of its own.                                                      *)
(***************************************************************************)

\* a page that was entered, before its first render
Landed ==
  /\ params = NoIntent
  /\ args = << >>
  /\ queryString = Null
  /\ legacyQueryString = Null
  /\ origin = "landing"
  /\ keyParams = NoResult
  /\ keyParamsRef = 0
  /\ allocated = 0
  /\ forwarded = NoResult
  /\ projects = << >>
  /\ showKeyLimitModal = FALSE
  /\ loading = TRUE
  /\ project = NoProject
  /\ keys = << >>
  /\ formData = EmptyForm
  /\ showAddKeyModal = FALSE
  /\ effectDeps = << >>
  /\ lastEvent = NoEvent
  /\ Idle

InitFetch ==
  /\ page = "DashboardPage"
  /\ searchParams = << >>
  /\ user \in { NoUser, [id |-> "u"] }
  /\ Landed

\* the requests of fetchData that have ended
Requested == DOMAIN fetched

\* what the device endpoints answer
DeviceCheckKeys == { [teamID |-> "t", keyID |-> k] : k \in { "k1", "k2" } }

PlayIntegrityConfigs == { [projectID |-> "p"] }

\* getToken and the request of the project: a rejected promise, an answer
\* that is not ok and a body that is no JSON each end in the not-found
\* page; otherwise the project is set
FetchProject ==
  /\ page = "DashboardPage"
  /\ fetched = NotFetched
  /\ \E outcome \in { "thrown", "notOk", "unparsable", "ok" } :
       /\ fetched' = [project |-> outcome]
       /\ IF outcome = "ok"
          THEN /\ project' = [id |-> 1]
               /\ UNCHANGED << isNotFound, loading >>
          ELSE /\ isNotFound' = TRUE
               /\ loading' = FALSE
               /\ UNCHANGED project
  /\ UNCHANGED codecVars
  /\ UNCHANGED << page, user, projects, showKeyLimitModal, keys, formData, showAddKeyModal,
                  effectDeps, lastEvent >>
  /\ UNCHANGED << alertVars, deviceCheckKey, playIntegrityConfig, formVars, calls, createVars,
                  error >>

\* the request of the keys, in its own try: the list answered, or the
\* empty list
FetchKeys ==
  /\ page = "DashboardPage"
  /\ Requested = { "project" }
  /\ fetched.project = "ok"
  /\ \E outcome \in { "thrown", "notOk", "notArray", "ok" } :
       /\ fetched' = [project |-> "ok", keys |-> outcome]
       /\ IF outcome = "ok" THEN keys' \in KeyLists ELSE keys' = << >>
  /\ UNCHANGED codecVars
  /\ UNCHANGED << page, user, projects, showKeyLimitModal, loading, project, formData,
                  showAddKeyModal, effectDeps, lastEvent >>
  /\ UNCHANGED << alertVars, isNotFound, deviceCheckKey, playIntegrityConfig, formVars, calls,
                  createVars, error >>

\* the request of the DeviceCheck key outside a try of its own
FetchDeviceCheckUnguarded ==
  /\ page = "DashboardPage"
  /\ Requested = { "project", "keys" }
  /\ \E outcome \in { "thrown", "notOk", "ok" } :
       /\ fetched' = [project |-> "ok", keys |-> fetched.keys, deviceCheck |-> outcome]
       /\ IF outcome = "ok"
          THEN deviceCheckKey' \in { NoConfig } \cup DeviceCheckKeys
          ELSE UNCHANGED deviceCheckKey
       /\ IF outcome = "thrown"
          THEN isNotFound' = TRUE /\ loading' = FALSE
          ELSE UNCHANGED << isNotFound, loading >>
  /\ UNCHANGED codecVars
  /\ UNCHANGED << page, user, projects, showKeyLimitModal, project, keys, formData,
                  showAddKeyModal, effectDeps, lastEvent >>
  /\ UNCHANGED << alertVars, playIntegrityConfig, formVars, calls, createVars, error >>

\* the request of the DeviceCheck key, in its own try: the first key of the
\* list answered, the key answered, or null; a failure sets nothing
FetchDeviceCheck ==
  /\ page = "DashboardPage"
  /\ Requested = { "project", "keys" }
  /\ \E outcome \in { "thrown", "notOk", "ok" } :
       /\ fetched' = [project |-> "ok", keys |-> fetched.keys, deviceCheck |-> outcome]
       /\ IF outcome = "ok"
          THEN deviceCheckKey' \in { NoConfig } \cup DeviceCheckKeys
          ELSE UNCHANGED deviceCheckKey
  /\ UNCHANGED codecVars
  /\ UNCHANGED << page, user, projects, showKeyLimitModal, loading, project, keys, formData,
                  showAddKeyModal, effectDeps, lastEvent >>
  /\ UNCHANGED << alertVars, isNotFound, playIntegrityConfig, formVars, calls, createVars,
                  error >>

\* the request of the Play Integrity configuration, in its own try, and
\* the setLoading(false) after it
FetchPlayIntegrity ==
  /\ page = "DashboardPage"
  /\ Requested = { "project", "keys", "deviceCheck" }
  /\ \E outcome \in { "thrown", "notOk", "ok" } :
       /\ fetched' = [project |-> "ok", keys |-> fetched.keys,
                      deviceCheck |-> fetched.deviceCheck, playIntegrity |-> outcome]
       /\ IF outcome = "ok"
          THEN playIntegrityConfig' \in { NoConfig } \cup PlayIntegrityConfigs
          ELSE UNCHANGED playIntegrityConfig
  /\ loading' = FALSE
  /\ UNCHANGED codecVars
  /\ UNCHANGED << page, user, projects, showKeyLimitModal, project, keys, formData,
                  showAddKeyModal, effectDeps, lastEvent >>
  /\ UNCHANGED << alertVars, isNotFound, deviceCheckKey, formVars, calls, createVars, error >>

NextFetch == FetchProject \/ FetchKeys \/ FetchDeviceCheck \/ FetchPlayIntegrity

SpecFetch == InitFetch /\ [][NextFetch]_vars

(***************************************************************************)
(* useFetchProjects with its awaits.  The mount effect of CreateKeyPage,   *)
(* its Retry button and its handleCreateProject each call fetchProjects;   *)
(* a call runs up to getToken, then up to the answer of the request, and   *)
(* nothing keeps a second call from starting while the first is waiting.   *)
(***************************************************************************)

InitHook ==
  /\ page = "CreateKeyPage"
  /\ searchParams = << >>
  /\ user = [id |-> "u"]
  /\ Landed

\* what GET /me/projects answers, after Array.isArray(data) ? data : []
HookAnswers == { [i \in 1..n |-> [id |-> i, keys |-> << >>]] : n \in 0..MaxProjects }

\* the call waits for getToken or for the answer
InFlight(call) == call.stage # "done"

\* fetchProjects() up to its first await: setLoading(true); setError(null)
StartFetchProjects ==
  /\ page = "CreateKeyPage"
  /\ Len(calls) < MaxCalls
  /\ loading' = TRUE
  /\ error' = Null
  /\ calls' = Append(calls, [stage |-> "token"])
  /\ UNCHANGED codecVars
  /\ UNCHANGED << page, user, projects, showKeyLimitModal, project, keys, formData,
                  showAddKeyModal, effectDeps, lastEvent >>
  /\ UNCHANGED << alertVars, fetchVars, formVars, createVars >>

\* getToken settles for a call: the request is sent, or the catch and the
\* finally run
TokenSettles ==
  /\ \E i \in DOMAIN calls :
       /\ calls[i].stage = "token"
       /\ \E resolved \in BOOLEAN :
            IF resolved
            THEN /\ calls' = [calls EXCEPT ![i] = [stage |-> "fetch"]]
                 /\ UNCHANGED << error, loading >>
            ELSE /\ calls' = [calls EXCEPT ![i] = [stage |-> "done", ok |-> FALSE]]
                 /\ error' = FailureMessage
                 /\ loading' = FALSE
  /\ UNCHANGED codecVars
  /\ UNCHANGED << page, user, projects, showKeyLimitModal, project, keys, formData,
                  showAddKeyModal, effectDeps, lastEvent >>
  /\ UNCHANGED << alertVars, fetchVars, formVars, createVars >>

\* the answer of the request arrives for a call: setProjects, or the catch
\* for an answer that is not ok, a body that is no JSON and a rejected
\* request; then the finally
ResponseArrives ==
  /\ \E i \in DOMAIN calls :
       /\ calls[i].stage = "fetch"
       /\ \/ \E data \in HookAnswers :
               /\ calls' = [calls EXCEPT ![i] = [stage |-> "done", ok |-> TRUE, data |-> data]]
               /\ projects' = data
               /\ UNCHANGED error
          \/ /\ calls' = [calls EXCEPT ![i] = [stage |-> "done", ok |-> FALSE]]
             /\ error' = FailureMessage
             /\ UNCHANGED projects
       /\ loading' = FALSE
  /\ UNCHANGED codecVars
  /\ UNCHANGED << page, user, showKeyLimitModal, project, keys, formData, showAddKeyModal,
                  effectDeps, lastEvent >>
  /\ UNCHANGED << alertVars, fetchVars, formVars, createVars >>

NextHook == StartFetchProjects \/ TokenSettles \/ ResponseArrives

SpecHook == InitHook /\ [][NextHook]_vars

(***************************************************************************)
(* handleCreateProject of pages/CreateKeyPage.tsx with its awaits: the     *)
(* limit check and setCreating(true), then getToken, the POST and the call *)
(* of fetchProjects, each a step of its own.                               *)
(***************************************************************************)

\* the queries CreateKeyPage is entered with
CreateQueries ==
  { << >>, << << NameKey, << "a" >> >>, << KeyKey, << "s", "k" >> >> >> }

\* the page as it mounts; useUserContext().user is null until the user is
\* fetched
InitCreate ==
  /\ page = "CreateKeyPage"
  /\ searchParams \in CreateQueries
  /\ user = NoUser
  /\ Landed

\* the UserProvider sets the user it fetched
UserLoads ==
  /\ page = "CreateKeyPage"
  /\ user = NoUser
  /\ user' \in Users \ { NoUser }
  /\ UNCHANGED codecVars
  /\ UNCHANGED << page, projects, showKeyLimitModal, loading, project, keys, formData,
                  showAddKeyModal, effectDeps, lastEvent >>
  /\ UNCHANGED moreVars

\* the list of projects, or the error state with Retry, is shown
ProjectsShown == page = "CreateKeyPage" /\ keyParams # NoResult /\ ~loading /\ error = Null

\* onClick of the Create New Project buttons
OpenCreateProjectModal ==
  /\ ProjectsShown
  /\ ~showCreateProjectModal
  /\ showCreateProjectModal' = ~ProjectLimitReached(user, projects)
  /\ UNCHANGED << codecVars, pageVars >>
  /\ UNCHANGED << alertVars, fetchVars, formVars, calls, creating, errorToast, createCall,
                  error >>

\* handleCloseModal of CreateKeyPage, with its timeout
handleCloseProjectModal ==
  /\ page = "CreateKeyPage"
  /\ showCreateProjectModal
  /\ showCreateProjectModal' = FALSE
  /\ UNCHANGED << codecVars, pageVars >>
  /\ UNCHANGED << alertVars, fetchVars, formVars, calls, creating, errorToast, createCall,
                  error >>

\* how a run of handleCreateProject ended
Ended(branch, posted) == [stage |-> "done", branch |-> branch, posted |-> posted]

\* onSubmit of the form of the modal, up to the first await of
\* handleCreateProject: at the limit the user is asked to upgrade and the
\* run ends; otherwise setCreating(true)
SubmitCreateProject ==
  /\ page = "CreateKeyPage"
  /\ keyParams # NoResult
  /\ showCreateProjectModal
  /\ ~creating
  /\ createCall.stage \in { "idle", "done" }
  /\ Len(projects) <= MaxProjects
  /\ IF ProjectLimitReached(user, projects)
     THEN /\ \E confirmed \in BOOLEAN : page' = IF confirmed THEN "PricingPage" ELSE page
          /\ createCall' = Ended("limit", FALSE)
          /\ UNCHANGED creating
     ELSE /\ creating' = TRUE
          /\ createCall' = [stage |-> "token"]
          /\ UNCHANGED page
  /\ UNCHANGED codecVars
  /\ UNCHANGED << user, projects, showKeyLimitModal, loading, project, keys, formData,
                  showAddKeyModal, effectDeps, lastEvent >>
  /\ UNCHANGED << alertVars, fetchVars, formVars, calls, errorToast, showCreateProjectModal,
                  error >>

\* getToken settles: the POST is sent, or the catch and the finally run
CreateTokenSettles ==
  /\ page = "CreateKeyPage"
  /\ createCall.stage = "token"
  /\ \E resolved \in BOOLEAN :
       IF resolved
       THEN /\ createCall' = [stage |-> "post"]
            /\ UNCHANGED << errorToast, creating >>
       ELSE /\ createCall' = Ended("token", FALSE)
            /\ errorToast' = FailureMessage
            /\ creating' = FALSE
  /\ UNCHANGED << codecVars, pageVars >>
  /\ UNCHANGED << alertVars, fetchVars, formVars, calls, showCreateProjectModal, error >>

\* the POST settles: a rejected request, an answer that is not ok and a
\* body that is no JSON end in the catch and the finally; otherwise
\* fetchProjects is called and runs up to its first await
PostSettles ==
  /\ page = "CreateKeyPage"
  /\ createCall.stage = "post"
  /\ \E outcome \in { "thrown", "notOk", "unparsable", "ok" } :
       IF outcome = "ok"
       THEN /\ \E hasId \in BOOLEAN : createCall' = [stage |-> "refresh", hasId |-> hasId]
            /\ loading' = TRUE
            /\ error' = Null
            /\ UNCHANGED << errorToast, creating >>
       ELSE /\ createCall' = Ended(outcome, TRUE)
            /\ errorToast' = FailureMessage
            /\ creating' = FALSE
            /\ UNCHANGED << loading, error >>
  /\ UNCHANGED codecVars
  /\ UNCHANGED << page, user, projects, showKeyLimitModal, project, keys, formData,
                  showAddKeyModal, effectDeps, lastEvent >>
  /\ UNCHANGED << alertVars, fetchVars, formVars, calls, showCreateProjectModal >>

\* how the run ended that created the project
Created(refreshed, hasId) ==
  [stage |-> "done", branch |-> "created", posted |-> TRUE, refreshed |-> refreshed,
   hasId |-> hasId]

\* a fetchProjects that rejects when its request fails
RefreshSettlesThrowing ==
  /\ page = "CreateKeyPage"
  /\ createCall.stage = "refresh"
  /\ \E refreshed \in BOOLEAN :
       /\ createCall' = Created(refreshed, createCall.hasId)
       /\ creating' = FALSE
       /\ IF refreshed
          THEN /\ projects' = Append(projects, [id |-> Len(projects) + 1, keys |-> << >>])
               /\ showCreateProjectModal' = FALSE
               /\ IF createCall.hasId
                  THEN NavigateWithIntent("CreateKeyRoute", << >>)
                  ELSE /\ loading' = FALSE
                       /\ UNCHANGED codecVars
                       /\ UNCHANGED << page, user, showKeyLimitModal, project, keys, formData,
                                       showAddKeyModal, effectDeps >>
                       /\ UNCHANGED << alertVars, fetchVars, formVars, calls, errorToast,
                                       error >>
          ELSE /\ error' = FailureMessage
               /\ errorToast' = FailureMessage
               /\ loading' = FALSE
               /\ UNCHANGED codecVars
               /\ UNCHANGED << page, user, projects, showKeyLimitModal, project, keys,
                               formData, showAddKeyModal, effectDeps >>
               /\ UNCHANGED << alertVars, fetchVars, formVars, calls,
                               showCreateProjectModal >>
  /\ UNCHANGED lastEvent

\* fetchProjects settles, with the answer or with the failure it catches
\* itself; then refreshProjects(), handleCloseModal() with its timeout, the
\* navigation when the new project has an id, and the finally
RefreshSettles ==
  /\ page = "CreateKeyPage"
  /\ createCall.stage = "refresh"
  /\ \E refreshed \in BOOLEAN :
       /\ createCall' = Created(refreshed, createCall.hasId)
       /\ creating' = FALSE
       /\ showCreateProjectModal' = FALSE
       /\ projects' = IF refreshed
                      THEN Append(projects, [id |-> Len(projects) + 1, keys |-> << >>])
                      ELSE projects
       /\ IF createCall.hasId
          THEN NavigateWithIntent("CreateKeyRoute", << >>)
          ELSE /\ loading' = FALSE
               /\ error' = IF refreshed THEN error ELSE FailureMessage
               /\ UNCHANGED codecVars
               /\ UNCHANGED << page, user, showKeyLimitModal, project, keys, formData,
                               showAddKeyModal, effectDeps >>
               /\ UNCHANGED << alertVars, fetchVars, formVars, calls, errorToast >>
  /\ UNCHANGED lastEvent

NextCreate ==
  \/ Render
  \/ FetchProjects
  \/ Retry
  \/ UserLoads
  \/ OpenCreateProjectModal
  \/ handleCloseProjectModal
  \/ SubmitCreateProject
  \/ CreateTokenSettles
  \/ PostSettles
  \/ RefreshSettles

SpecCreate == InitCreate /\ [][NextCreate]_vars

TypeOK ==
  /\ queryString = Null \/ IsString(queryString)
  /\ \A i \in DOMAIN searchParams : IsString(searchParams[i][1]) /\ IsString(searchParams[i][2])
  /\ origin \in {"landing", "navigated"}
  /\ page \in { "none", "CreateKeyPage", "CreateKeyPageEarlier", "CreateKeyRoute",
                "DashboardPage", "PricingPage" }
  /\ showAddKeyModal \in BOOLEAN
  /\ showKeyLimitModal \in BOOLEAN
  /\ loading \in BOOLEAN

(***************************************************************************)
(* Vocabulary of the properties                                            *)
(***************************************************************************)
Decoded == keyParams # NoResult

\* the page decoded what a navigation of the producer carried
RoundTrip == origin = "navigated" /\ Decoded /\ forwarded = NoResult

\* buildKeyParamsUrl encoded the intent of the producer
Built == queryString # Null /\ forwarded = NoResult

\* the wire form q holds the segment k=v between its "&" delimiters
HasPair(q, k, v) ==
  LET seg == k \o << "=" >> \o v
  IN  \E i \in 1..Len(q) :
        /\ i + Len(seg) - 1 <= Len(q)
        /\ SubSeq(q, i, i + Len(seg) - 1) = seg
        /\ (i = 1 \/ q[i - 1] = "&")
        /\ (i + Len(seg) - 1 = Len(q) \/ q[i + Len(seg)] = "&")

\* the wire form q holds a segment whose key is k
HasWireKey(q, k) ==
  \E i \in 1..Len(q) :
    /\ i + Len(k) <= Len(q)
    /\ SubSeq(q, i, i + Len(k)) = k \o << "=" >>
    /\ (i = 1 \/ q[i - 1] = "&")

\* s occurs somewhere in q
HasSubstring(q, s) ==
  \E i \in 1..Len(q) : i + Len(s) - 1 <= Len(q) /\ SubSeq(q, i, i + Len(s) - 1) = s

\* the query gives key k the value v: the first pair named k holds v
HasValue(sp, k, v) ==
  \E i \in DOMAIN sp :
    /\ sp[i][1] = k
    /\ sp[i][2] = v
    /\ \A j \in 1..(i - 1) : sp[j][1] # k

\* the value the query gives key k, the empty string when it gives none
RawValue(sp, k) ==
  IF \E i \in DOMAIN sp : sp[i][1] = k
  THEN sp[CHOOSE i \in DOMAIN sp : sp[i][1] = k /\ \A j \in 1..(i - 1) : sp[j][1] # k][2]
  ELSE << >>

\* the value of field f of an intent, d when the field is not set
FieldOr(I, f, d) == IF f \in DOMAIN I THEN I[f] ELSE d

NthSmallest(S, n) == CHOOSE p \in S : Cardinality({ q \in S : q < p }) = n - 1

Least(S) == CHOOSE p \in S : \A q \in S : p <= q

Greatest(S) == CHOOSE p \in S : \A q \in S : q <= p

\* the pieces of v between its commas, in order
CommaPieces(v) ==
  LET commas == { i \in DOMAIN v : v[i] = "," }
      n      == Cardinality(commas)
      cut(j) == IF j = 0 THEN 0
                ELSE IF j = n + 1 THEN Len(v) + 1
                ELSE NthSmallest(commas, j)
  IN  [j \in 1..(n + 1) |-> SubSeq(v, cut(j - 1) + 1, cut(j) - 1)]

\* a piece without its surrounding whitespace, then without one leading
\* http:// or https:// in any case, then without its leading slashes
NormalPiece(p) ==
  LET ink  == { i \in DOMAIN p : p[i] \notin {" ", "\t", "\n"} }
      t    == IF ink = {} THEN << >> ELSE SubSeq(p, Least(ink), Greatest(ink))
      http == /\ Len(t) >= 7
              /\ t[1] \in {"h", "H"} /\ t[2] \in {"t", "T"}
              /\ t[3] \in {"t", "T"} /\ t[4] \in {"p", "P"}
      n    == IF http /\ SubSeq(t, 5, 7) = << ":", "/", "/" >> THEN 7
              ELSE IF http /\ Len(t) >= 8 /\ t[5] \in {"s", "S"}
                        /\ SubSeq(t, 6, 8) = << ":", "/", "/" >> THEN 8
              ELSE 0
      rest == { i \in (n + 1)..Len(t) : t[i] # "/" }
  IN  IF rest = {} THEN << >> ELSE SubSeq(t, Least(rest), Len(t))

\* the normal forms of the pieces of v that are not empty, in the order of
\* the pieces, duplicates kept
NormalWhitelist(v) ==
  LET ps   == CommaPieces(v)
      cl   == [j \in DOMAIN ps |-> NormalPiece(ps[j])]
      keep == { j \in DOMAIN ps : cl[j] # << >> }
  IN  [n \in 1..Cardinality(keep) |-> cl[NthSmallest(keep, n)]]

AllDefaults ==
  [ name |-> << >>, key |-> << >>, description |-> << >>, allowsWeb |-> FALSE,
    whitelistedUrls |-> << >>, rateLimit |-> IntNum(-1) ]

(***************************************************************************)
(* Properties                                                              *)
(***************************************************************************)

\* the rateLimit an intent round-trips to
ExpectedRateLimit(I) ==
  IF IsSet(I, "rateLimit") /\ I.rateLimit.k = "int" /\ I.rateLimit.v >= 1
  THEN I.rateLimit ELSE IntNum(-1)

C2_Total ==
  Decoded =>
       /\ DOMAIN keyParams =
            {"name", "key", "description", "allowsWeb", "whitelistedUrls", "rateLimit"}
       /\ IsString(keyParams.name)
       /\ IsString(keyParams.key)
       /\ IsString(keyParams.description)
       /\ keyParams.allowsWeb \in BOOLEAN
       /\ \A i \in DOMAIN keyParams.whitelistedUrls : IsString(keyParams.whitelistedUrls[i])
       /\ keyParams.rateLimit.k \in {"int", "big", "Infinity"}

C2_Witness ==
  /\ Decoded
  /\ searchParams = << UnrelatedPair >>
  /\ keyParams = AllDefaults

\* C3 (as claimed): the rateLimit parseKeyParams returns is -1 or an integer
\* that is at least 1.
C3_RateLimitIsSentinelOrPositiveInteger ==
  Decoded =>
    \/ keyParams.rateLimit = IntNum(-1)
    \/ IsInteger(keyParams.rateLimit) /\ NumGe(keyParams.rateLimit, 1)

\* C4: the whitelistedUrls parseKeyParams returns hold no empty string.
C4_NoEmptyUrl ==
  Decoded => \A i \in DOMAIN keyParams.whitelistedUrls : keyParams.whitelistedUrls[i] # << >>

C4_Witness ==
  /\ Decoded
  /\ HasValue(searchParams, WhitelistedUrlsKey,
              << "h", "t", "t", "p", "s", ":", "/", "/", ",", "/" >>)
  /\ keyParams.whitelistedUrls = << >>

\* C5: the whitelistedUrls parseKeyParams returns are the comma-separated
\* pieces of the raw value, each trimmed, then stripped of one leading
\* http:// or https:// in any case, then of its leading slashes, the pieces
\* left empty dropped, in the order of the pieces and with duplicates kept;
\* the documented example decodes to [api.example.com, foo.com].
C5_WhitelistNormalization ==
  Decoded =>
    /\ keyParams.whitelistedUrls = NormalWhitelist(RawValue(searchParams, WhitelistedUrlsKey))
    /\ searchParams = ExampleQuery =>
         keyParams.whitelistedUrls =
           << << "a", "p", "i", ".", "e", "x", "a", "m", "p", "l", "e", ".", "c", "o", "m" >>,
              << "f", "o", "o", ".", "c", "o", "m" >> >>

C5_Witness ==
  /\ Decoded
  /\ searchParams = ExampleQuery
  /\ Len(keyParams.whitelistedUrls) = 2

\* C6: the output of buildKeyParamsUrl has a rateLimit key exactly when the
\* intent has a rateLimit that is at least 1 (not for -1, 0 or none), and
\* for rateLimit 5 it has rateLimit=5.
C6_RateLimitIncluded ==
  Built =>
    /\ HasWireKey(queryString, RateLimitKey) <=>
         (IsSet(params, "rateLimit") /\ params.rateLimit.k = "int" /\ params.rateLimit.v >= 1)
    /\ FieldOr(params, "rateLimit", NaN) = IntNum(5) =>
         HasPair(queryString, RateLimitKey, << "5" >>)

C6_Witness ==
  /\ Built
  /\ FieldOr(params, "rateLimit", NaN) = IntNum(5)
  /\ HasPair(queryString, RateLimitKey, << "5" >>)

\* C7: the output of buildKeyParamsUrl never holds allowsWeb=false; it has
\* the allowsWeb key, with the value true, exactly when the intent's
\* allowsWeb is truthy; a query without allowsWeb decodes to false.
C7_AllowsWebAsymmetry ==
  /\ Built =>
       /\ ~HasSubstring(queryString, AllowsWebKey \o << "=", "f", "a", "l", "s", "e" >>)
       /\ HasWireKey(queryString, AllowsWebKey) <=> FieldOr(params, "allowsWeb", FALSE)
       /\ HasWireKey(queryString, AllowsWebKey) => HasPair(queryString, AllowsWebKey, TrueStr)
  /\ (Decoded /\ ~Has(searchParams, AllowsWebKey)) => keyParams.allowsWeb = FALSE

C7_Witness ==
  /\ RoundTrip
  /\ IsSet(params, "allowsWeb")
  /\ params.allowsWeb = FALSE
  /\ ~HasWireKey(queryString, AllowsWebKey)
  /\ keyParams.allowsWeb = FALSE

\* C8: called with the flag false, buildKeyParamsUrl never writes the
\* openModal key; called with the flag true or without the flag, it always
\* writes openModal=true.  Both versions of the function.
C8_MarkerControl ==
  \A q \in {queryString, legacyQueryString} :
    q # Null =>
      /\ args = << FALSE >> => ~HasWireKey(q, OpenModalKey)
      /\ args \in { << >>, << TRUE >> } => HasPair(q, OpenModalKey, TrueStr)

C8_Witness ==
  /\ Built
  /\ legacyQueryString # Null
  /\ args = << FALSE >>
  /\ IsSet(params, "name")
  /\ HasSubstring(params.name, OpenModalKey)
  /\ ~HasWireKey(queryString, OpenModalKey)

\* C9: decoding the encoding of the empty intent gives the all-defaults
\* intent, with and without the marker.
C9_DefaultRoundTrip ==
  (RoundTrip /\ params = << >>) => keyParams = AllDefaults

C9_Witness ==
  /\ RoundTrip
  /\ params = << >>
  /\ args = << >>
  /\ HasPair(queryString, OpenModalKey, TrueStr)
  /\ keyParams = AllDefaults

\* C10: parseKeyParams gives allowsWeb = true exactly when the value of
\* allowsWeb in the query is the string true; 1, True, TRUE, the empty
\* string and no value give false.
C10_AllowsWebExact ==
  Decoded =>
    /\ keyParams.allowsWeb <=> HasValue(searchParams, AllowsWebKey, TrueStr)
    /\ \A v \in { << "1" >>, << "T", "r", "u", "e" >>, << "T", "R", "U", "E" >>, << >> } :
         HasValue(searchParams, AllowsWebKey, v) => ~keyParams.allowsWeb

C10_Witness ==
  /\ Decoded
  /\ HasValue(searchParams, AllowsWebKey, << "T", "r", "u", "e" >>)
  /\ keyParams.allowsWeb = FALSE

\* the elements of l with a comma between each two, in the order of l
CommaJoined(l) ==
  Concat([i \in 1..(2 * Len(l) - 1) |-> IF i % 2 = 1 THEN l[(i + 1) \div 2] ELSE << "," >>])

\* the number of characters c in s
CountChar(s, c) == Cardinality({ i \in DOMAIN s : s[i] = c })

\* C11: the output of buildKeyParamsUrl has each of name, key and
\* description exactly when the intent's value for it is a non-empty
\* string; an empty or absent field is left out, not written with an empty
\* value.
C11_StringFieldsIncluded ==
  Built =>
    \A f \in { << "name", NameKey >>, << "key", KeyKey >>,
               << "description", DescriptionKey >> } :
      /\ HasWireKey(queryString, f[2]) <=> FieldOr(params, f[1], << >>) # << >>
      /\ ~HasPair(queryString, f[2], << >>)

C11_Witness ==
  /\ Built
  /\ IsSet(params, "name")
  /\ params.name = << >>
  /\ IsSet(params, "key")
  /\ params.key # << >>
  /\ ~HasWireKey(queryString, NameKey)
  /\ HasWireKey(queryString, KeyKey)

C13_EndToEnd ==
  (params = ExampleIntent /\ args # << FALSE >>) =>
    /\ Built =>
         /\ HasPair(queryString, NameKey, << "O", "p", "e", "n", "A", "I" >>)
         /\ HasPair(queryString, WhitelistedUrlsKey, << "a", "p", "i", ".", "o", "p", "e", "n", "a", "i", ".", "c", "o", "m" >>)
         /\ HasPair(queryString, AllowsWebKey, TrueStr)
         /\ HasPair(queryString, RateLimitKey, << "6", "0" >>)
         /\ HasPair(queryString, OpenModalKey, TrueStr)
         /\ CountChar(queryString, "&") = 4
         /\ CountChar(queryString, "=") = 5
         /\ ~HasWireKey(queryString, KeyKey)
         /\ ~HasWireKey(queryString, DescriptionKey)
    /\ RoundTrip =>
         keyParams =
           [ name |-> << "O", "p", "e", "n", "A", "I" >>, key |-> << >>, description |-> << >>,
             allowsWeb |-> TRUE,
             whitelistedUrls |-> << << "a", "p", "i", ".", "o", "p", "e", "n", "a", "i", ".", "c", "o", "m" >> >>,
             rateLimit |-> IntNum(60) ]

C13_Witness ==
  /\ params = ExampleIntent
  /\ args = << TRUE >>
  /\ RoundTrip
  /\ keyParams.rateLimit = IntNum(60)
  /\ HasValue(searchParams, OpenModalKey, TrueStr)

\* C14: parseKeyParams passes name, key and description through: each is
\* the raw value the query gives its key, surrounding whitespace kept, and
\* the empty string when the query has no such key.
C14_StringsPassThrough ==
  Decoded =>
    /\ keyParams.name = RawValue(searchParams, NameKey)
    /\ keyParams.key = RawValue(searchParams, KeyKey)
    /\ keyParams.description = RawValue(searchParams, DescriptionKey)

C14_Witness ==
  /\ Decoded
  /\ HasValue(searchParams, KeyKey, << " ", "s", "k", " ", "1", " " >>)
  /\ keyParams.key = << " ", "s", "k", " ", "1", " " >>
  /\ ~Has(searchParams, NameKey)
  /\ keyParams.name = << >>

C20_ForwardStable ==
  (origin = "navigated" /\ forwarded # NoResult /\ Decoded) => keyParams = forwarded

\* the form a decoded intent fills
FormOf(kp) ==
  [ name            |-> kp.name,
    description     |-> kp.description,
    apiKey          |-> kp.key,
    whitelistedUrls |-> kp.whitelistedUrls,
    rateLimit       |-> kp.rateLimit,
    allowsWeb       |-> kp.allowsWeb ]

\* a step of the query effect of DashboardPage
QueryEffectStep == page = "DashboardPage" /\ effectDeps' # effectDeps

\* C16 (as claimed): when the query effect of DashboardPage opens the modal
\* for a query with the marker, the form it sets equals the decoding of
\* that query by parseKeyParams in every field, and the query is cleared.
C16_FormEqualsDecoding ==
  [][ (QueryEffectStep /\ showAddKeyModal' /\ ~showAddKeyModal) =>
        /\ formData' = FormOf(parseKeyParams(searchParams))
        /\ searchParams' = << >>
    ]_vars

\* C17: the query effect of DashboardPage opens the Add Key modal exactly
\* when the page has finished loading its project and the first value of
\* openModal in the query is the string true; in every other run it leaves
\* modal, form and query as they are, whatever else the query carries.
C17_ModalOpensOnMarker ==
  [][ QueryEffectStep =>
        IF ~loading /\ project # NoProject /\ Get(searchParams, OpenModalKey) = TrueStr
        THEN ~showAddKeyModal /\ showAddKeyModal'
        ELSE UNCHANGED << showAddKeyModal, formData, searchParams >>
    ]_vars

C17_Witness ==
  /\ page = "DashboardPage"
  /\ origin = "landing"
  /\ showAddKeyModal
  /\ lastEvent = NoEvent
  /\ searchParams = << >>
  /\ formData.name = << "a" >>
  /\ effectDeps = QueryEffectDeps

\* C18 (as claimed): with projectLimit -1 handleCreateProject goes on to
\* the POST, and with apiKeyLimit -1 handleCreateKey goes on to the POST
\* and the Add Key button opens the modal, whatever the number of projects
\* or keys.
C18_MinusOneIsUnlimited ==
  /\ (lastEvent.handler = "handleCreateProject" /\ HasLimit(user, "projectLimit")
        /\ user.projectLimit = -1) => lastEvent.branch = "posted"
  /\ (lastEvent.handler = "handleCreateKey" /\ HasLimit(user, "apiKeyLimit")
        /\ user.apiKeyLimit = -1) => lastEvent.branch = "posted"
  /\ (lastEvent.handler = "AddKeyButton" /\ HasLimit(user, "apiKeyLimit")
        /\ user.apiKeyLimit = -1) => lastEvent.branch = "opened"

\* C19 (as claimed): the query string handleSelectProject of CreateKeyPage
\* builds for its navigation has no openModal marker.
C19_SelectProjectWithoutMarker ==
  (lastEvent.handler = "handleSelectProject" /\ lastEvent.branch = "navigated"
     /\ page = "CreateKeyRoute") =>
    ~HasWireKey(queryString, OpenModalKey)

\* a step of handleSelectProject of pages/CreateKeyPage.tsx
SelectProjectStep ==
  /\ page = "CreateKeyPage"
  /\ lastEvent'.handler = "handleSelectProject"
  /\ lastEvent' # lastEvent \/ page' # page \/ (showKeyLimitModal' /\ ~showKeyLimitModal)

\* C21: when the user's apiKeyLimit is defined and above 0 and the selected
\* project has a keys list with at least apiKeyLimit keys, handleSelectProject
\* shows the key-limit modal and does not navigate; in every other case (no
\* limit, limit 0 or -1, fewer keys, a project without keys list) it
\* navigates to the create-key route with the encoded intent and the modal
\* is not shown.
C21_KeyLimitGate ==
  [][ SelectProjectStep =>
        LET selectedProject == projects[lastEvent'.selected]
            atLimit == /\ user # NoUser
                       /\ "apiKeyLimit" \in DOMAIN user
                       /\ user.apiKeyLimit > 0
                       /\ "keys" \in DOMAIN selectedProject
                       /\ Len(selectedProject.keys) >= user.apiKeyLimit
        IN  IF atLimit
            THEN /\ showKeyLimitModal'
                 /\ page' = page
                 /\ UNCHANGED << searchParams, queryString >>
            ELSE /\ page' = "CreateKeyRoute"
                 /\ ~showKeyLimitModal'
                 /\ queryString' = buildKeyParamsUrl(keyParams, << >>)
                 /\ searchParams' = NewURLSearchParams(<< "?" >> \o queryString')
    ]_vars

C21_Witness ==
  /\ page = "CreateKeyPage"
  /\ lastEvent.handler = "handleSelectProject"
  /\ lastEvent.branch = "limit"
  /\ showKeyLimitModal
  /\ user.apiKeyLimit = 2
  /\ Len(projects[lastEvent.selected].keys) = 2

\* C22 (as claimed): the Low Request Limit alert is shown exactly when usage
\* and limit are known, the limit is above 0 and less than 10% of the limit
\* remains (limit - usage < limit / 10); it is never shown when usage or
\* limit is unknown or the limit is 0 or below; the banner is shown only
\* then.
C22_AlertBelowTenPercent ==
  LET known == currentRequestUsage # NoNumber /\ requestLimit # NoNumber
      low   == /\ known
               /\ requestLimit.v > 0
               /\ 10 * (requestLimit.v - currentRequestUsage.v) < requestLimit.v
  IN  /\ shouldShowAlert(currentRequestUsage, requestLimit) <=> low
      /\ shouldShowBanner(pathname, currentRequestUsage, requestLimit) => low

\* a step of handleNameChange of the form of the Add Key modal
NameChangeStep ==
  /\ lastEvent'.handler = "handleNameChange"
  /\ \/ lastEvent' # lastEvent
     \/ formData'.name # formData.name /\ showAddKeyModal' /\ prefillCount' = prefillCount

\* the URL lists of the API directory
DirectoryLists == { API_DIRECTORY[i][2] : i \in DOMAIN API_DIRECTORY }

\* C23 (as claimed): handleNameChange sets the form's name to the typed
\* value and its whitelistedUrls to the empty list when the name is empty
\* or whitespace only, to the URL list of the API directory when
\* getWhitelistedUrlsFromName finds one for the name, and leaves the list
\* as it is otherwise; every other field of the form is unchanged.
C23_NameChangeFrame ==
  [][ NameChangeStep =>
        LET name == lastEvent'.name
            autoUrls == getWhitelistedUrlsFromName(name)
        IN  /\ formData'.name = name
            /\ formData'.whitelistedUrls =
                 IF Trim(name) = << >> THEN << >>
                 ELSE IF autoUrls \in DirectoryLists THEN autoUrls
                 ELSE formData.whitelistedUrls
            /\ formData'.description = formData.description
            /\ formData'.apiKey = formData.apiKey
            /\ formData'.rateLimit = formData.rateLimit
            /\ formData'.allowsWeb = formData.allowsWeb
    ]_vars

C26_SecretLeavesUrl ==
  (page = "DashboardPage" /\ ~loading /\ effectDeps = QueryEffectDeps) =>
    ~Has(searchParams, KeyKey)

\* C27 (as claimed): the whitelistedUrls of the form hold no empty string
\* and no URL twice, after any sequence of pre-fill from the URL,
\* handleAddWhitelistedUrl, handleRemoveWhitelistedUrl and handleNameChange.
C27_NoEmptyNoDuplicate ==
  LET urls == formData.whitelistedUrls
  IN  /\ \A i \in DOMAIN urls : urls[i] # << >>
      /\ \A i \in DOMAIN urls : \A j \in DOMAIN urls : i # j => urls[i] # urls[j]

\* C24: in fetchData a failure to fetch the project (a thrown error, an
\* answer that is not ok, a body that cannot be parsed) ends in the
\* not-found page with loading false; a failure of the keys, DeviceCheck or
\* Play Integrity request never does: the page finishes loading with the
\* project set and no error, the keys are the empty list after a keys
\* failure, and the device configuration of a failed request stays null.
C24_OnlyProjectFailureIsNotFound ==
  /\ fetched.project \in { "thrown", "notOk", "unparsable" } =>
       isNotFound /\ ~loading /\ project = NoProject
  /\ fetched.project = "ok" =>
       /\ ~isNotFound
       /\ error = Null
       /\ project # NoProject
       /\ loading <=> "playIntegrity" \notin Requested
       /\ ("keys" \in Requested /\ fetched.keys # "ok") => keys = << >>
       /\ ("deviceCheck" \in Requested /\ fetched.deviceCheck # "ok") =>
            deviceCheckKey = NoConfig
       /\ ("playIntegrity" \in Requested /\ fetched.playIntegrity # "ok") =>
            playIntegrityConfig = NoConfig

C24_Witness ==
  /\ page = "DashboardPage"
  /\ fetched = [project |-> "ok", keys |-> "thrown", deviceCheck |-> "thrown",
                playIntegrity |-> "notOk"]
  /\ ~loading
  /\ ~isNotFound
  /\ project = [id |-> 1]
  /\ keys = << >>

\* C28 (as claimed): under any interleaving of overlapping calls of
\* fetchProjects, loading is true whenever a call is in flight; once all
\* calls have ended, projects is the answer of the call that started last;
\* a call that fails sets error and leaves projects unchanged.
C28_LatestCallWins ==
  [][ /\ (\E i \in DOMAIN calls' : InFlight(calls'[i])) => loading'
      /\ ( /\ calls' # << >>
           /\ \A i \in DOMAIN calls' : ~InFlight(calls'[i])
           /\ calls'[Len(calls')].ok ) => projects' = calls'[Len(calls')].data
      /\ \A i \in DOMAIN calls :
           (InFlight(calls[i]) /\ ~InFlight(calls'[i]) /\ ~calls'[i].ok) =>
             error' # Null /\ projects' = projects
    ]_vars

\* a step that ends a run of handleCreateProject
CreateEnds == createCall' # createCall /\ createCall'.stage = "done"

\* a step in which CreateKeyPage navigates to the create-key route
NavigatedToCreateKey == page = "CreateKeyPage" /\ page' = "CreateKeyRoute"

\* the run ended in the catch of handleCreateProject
CreateFailed(c) == c.branch \in { "token", "thrown", "notOk", "unparsable" }

\* C29 as stated: a run that sent the POST ends with creating false; it
\* navigates only when the POST succeeded and the answer has an id; a token
\* error, a failed POST and a failed refresh each set the error toast,
\* navigate nowhere and leave the modal as it is; at the project limit no
\* POST is sent and creating is never true.
C29_FailedRefreshIsAFailure ==
  [][CreateEnds =>
       LET c == createCall'
       IN  /\ c.posted => ~creating'
           /\ NavigatedToCreateKey => (c.branch = "created" /\ c.hasId)
           /\ (CreateFailed(c) \/ (c.branch = "created" /\ ~c.refreshed)) =>
                /\ errorToast' # Null
                /\ ~NavigatedToCreateKey
                /\ showCreateProjectModal' = showCreateProjectModal
           /\ c.branch = "limit" => (~c.posted /\ ~creating /\ ~creating')]_vars

\* C29 (amended): a run that sent the POST ends with creating false; it
\* navigates exactly when the POST succeeded and the answer has an id,
\* whether or not the refresh of the list succeeded, and it then closes the
\* modal; a token error and a failed POST set the error toast, navigate
\* nowhere and leave the modal as it is; a failed refresh sets no toast; at
\* the project limit no POST is sent and creating is never true.
C29_CreateProjectOutcomes ==
  [][CreateEnds =>
       LET c == createCall'
       IN  /\ c.posted => ~creating'
           /\ NavigatedToCreateKey <=> (c.branch = "created" /\ c.hasId)
           /\ CreateFailed(c) =>
                /\ errorToast' = FailureMessage
                /\ showCreateProjectModal' = showCreateProjectModal
           /\ c.branch = "created" =>
                /\ ~showCreateProjectModal'
                /\ ~c.hasId => errorToast' = errorToast
           /\ c.branch = "limit" => (~c.posted /\ ~creating /\ ~creating')]_vars

\* the POST succeeded with an id, the refresh failed, and the page navigated
C29_Witness ==
  /\ createCall.stage = "done"
  /\ createCall.branch = "created"
  /\ ~createCall.refreshed
  /\ createCall.hasId
  /\ page = "CreateKeyRoute"
  /\ ~creating


====
